---- MODULE Spec2Model ----
(***************************************************************************)
(* SQLWhisper question-to-SQL pipeline.                                    *)
(*                                                                         *)
(* Text is modelled as a sequence of lexemes (tokens).  Every token is a   *)
(* fixed piece of text; the text a sequence stands for is the              *)
(* concatenation of its tokens.  The regular expressions of the source are *)
(* evaluated on these sequences: a token is the unit at which a pattern    *)
(* can start or end, and the vocabulary is chosen so that no pattern of    *)
(* the source matches across a token boundary other than as modelled       *)
(* (word runs, whitespace runs).  A TLA+ string cannot hold a backtick:    *)
(* an apostrophe stands for it in the two fence tokens.                    *)
(*                                                                         *)
(* src/src/services/text2sql_service.py holds unresolved merge markers;    *)
(* the model follows the incoming side (after each =======), which is the  *)
(* side the line numbers of the pipeline refer to.                         *)
(***************************************************************************)
EXTENDS Integers, Sequences, FiniteSets, TLC

VARIABLES
    pc,          \* position of the running generate_sql call, or "idle"
    question,    \* the question passed to generate_sql
    schema,      \* what get_database_schema read from the connection
    schemaCtx,   \* create_schema_context's result: the tables rendered
    prompt,      \* create_enhanced_prompt's result: what it interpolates
    rawOut,      \* decoded model output with the prompt removed
    probs,       \* outputs.scores: [err, vals], vals in percent
    cleaned,     \* clean_sql_output's result
    tokenConf,   \* token_conf: NoneScore or an exact average
    dbOk,        \* whether the database accepts EXPLAIN <cleaned>
    result,      \* the dict generate_sql returned, NoResult before
    raised,      \* TRUE when generate_sql propagated an exception
    log,         \* calls made so far to the model and the database
    call,        \* the last direct call of a component: [fn, arg, ret]
    workers,     \* the requests in progress on the shared service instance
    model_cache, \* ModelHandler._model_cache: model name -> cached object
    objects,     \* the tokenizer/model pairs loaded so far, in load order
    handlers,    \* the ModelHandler each thread constructs and uses
    conn,        \* a DatabaseConnection and the get_cursor block using it
    dataDir      \* the files of the uploader's data directory

\* The state of the components outside the generate_sql pipeline.
componentVars == <<model_cache, objects, handlers, conn, dataDir>>

vars == <<pc, question, schema, schemaCtx, prompt, rawOut, probs, cleaned,
          tokenConf, dbOk, result, raised, log, call, workers, model_cache,
          objects, handlers, conn, dataDir>>

NoneVal == "None"

-----------------------------------------------------------------------------
(* Tokens *)

FenceSql == "'''sql"   \* three backticks followed by sql
Fence    == "'''"      \* three backticks
SP       == " "
NL       == "\n"
Semi     == ";"
SqlLabel == "SQL:"

\* A word of 120 letters: a line longer than every length threshold.
LongWord == "a{120}"
\* A word of 2001 letters: longer than MAX_QUERY_LENGTH.
HugeWord == "a{2001}"

\* Tokens made of whitespace (Python \s, str.isspace).
SpaceToks == {SP, NL}

\* Tokens without any word character (\w).
PunctToks == {Semi, "*", ">", "=", ".", "(", ")", ",", "!?#", Fence, "--"}

\* Tokens that mix word and non-word characters.
MixedToks == {FenceSql, SqlLabel, "sql:", "Note:", "%27", "char(", "/*x*/"}

IsSpace(t) == t \in SpaceToks

\* Every character of t is a word character.
IsWord(t) == t \notin SpaceToks \cup PunctToks \cup MixedToks

\* The first / last character of t is a word character (for \b).
StartsWordChar(t) == IsWord(t) \/ t \in {SqlLabel, "sql:", "Note:", "char("}
EndsWordChar(t)   == IsWord(t) \/ t \in {FenceSql, "%27"}

\* str.upper() / re.IGNORECASE: the upper-case form of a token.  Only the
\* tokens whose case matters to a pattern are listed.
Up(t) ==
    CASE t = "select" -> "SELECT"
      [] t = "drop"   -> "DROP"
      [] t = "with"   -> "WITH"
      [] t = "delete" -> "DELETE"
      [] t = "sql:"   -> "SQL:"
      [] t = "Use"    -> "USE"
      [] OTHER        -> t

\* Number of characters of a token.
TokLen(t) ==
    CASE t = LongWord -> 120
      [] t = HugeWord -> 2001
      [] OTHER        -> Len(t)

\* Characters of t that are neither alphanumeric nor whitespace.
SpecialCount(t) ==
    CASE IsWord(t) \/ IsSpace(t) -> 0
      [] t \in {FenceSql, Fence, "!?#"} -> 3
      [] t \in {SqlLabel, "sql:", "Note:", "%27", "char("} -> 1
      [] t = "/*x*/" -> 4
      [] OTHER -> Len(t)

-----------------------------------------------------------------------------
(* Sequences of tokens *)

RECURSIVE SumLen(_)
SumLen(s) == IF s = <<>> THEN 0 ELSE TokLen(Head(s)) + SumLen(Tail(s))

Min2(a, b) == IF a < b THEN a ELSE b
Max2(a, b) == IF a > b THEN a ELSE b

\* s[a..b], empty when a > b.
Slice(s, a, b) == IF a > b THEN <<>> ELSE SubSeq(s, a, b)

\* The least element of a non-empty set of integers.
Least(S) == CHOOSE x \in S : \A y \in S : x <= y
Greatest(S) == CHOOSE x \in S : \A y \in S : x >= y

\* str.strip(): leading and trailing whitespace removed.
Strip(s) ==
    LET keep == {i \in 1..Len(s) : ~IsSpace(s[i])}
    IN IF keep = {} THEN <<>> ELSE SubSeq(s, Least(keep), Greatest(keep))

\* re.sub(r'[\s\n]*$', '', s) and str.rstrip().
RStrip(s) ==
    LET keep == {i \in 1..Len(s) : ~IsSpace(s[i])}
    IN IF keep = {} THEN <<>> ELSE SubSeq(s, 1, Greatest(keep))

\* str.endswith(';').
EndsWithSemi(s) == s # <<>> /\ s[Len(s)] = Semi

\* str.count(';').
CountSemi(s) == Cardinality({i \in 1..Len(s) : s[i] = Semi})

\* str.split('\n'): the lines of s (always at least one).
RECURSIVE SplitLines(_)
SplitLines(s) ==
    LET nls == {i \in 1..Len(s) : s[i] = NL}
    IN IF nls = {} THEN <<s>>
       ELSE LET k == Least(nls)
            IN <<Slice(s, 1, k - 1)>> \o SplitLines(Slice(s, k + 1, Len(s)))

\* sep.join(lines).
RECURSIVE Join(_, _)
Join(lines, sep) ==
    IF lines = <<>> THEN <<>>
    ELSE IF Len(lines) = 1 THEN lines[1]
    ELSE lines[1] \o <<sep>> \o Join(Tail(lines), sep)

\* re.sub(tok + r'\s*', '', s): every occurrence of a token for which
\* isTok holds is removed together with the whitespace that follows it.
RECURSIVE RemoveWithSpace(_, _, _)
RemoveWithSpace(s, toks, skipping) ==
    IF s = <<>> THEN <<>>
    ELSE IF Head(s) \in toks THEN RemoveWithSpace(Tail(s), toks, TRUE)
    ELSE IF skipping /\ IsSpace(Head(s))
         THEN RemoveWithSpace(Tail(s), toks, TRUE)
    ELSE <<Head(s)>> \o RemoveWithSpace(Tail(s), toks, FALSE)

-----------------------------------------------------------------------------
(* Pattern helpers *)

\* The statement keywords of the extractor and of SQLValidator.clean_sql.
StmtKeywords == {"SELECT", "INSERT", "UPDATE", "DELETE", "WITH", "CREATE",
                 "DROP", "ALTER"}

\* The keywords of EnhancedText2SQLService.clean_sql_output.
ServiceKeywords == {"SELECT", "INSERT", "UPDATE", "DELETE", "WITH"}

\* The keywords after which a missing ';' is appended.
TerminatedKeywords == {"SELECT", "INSERT", "UPDATE", "DELETE"}

\* re.search(r'(A|B|...)', s, re.IGNORECASE): the first token holding one of
\* the keywords, 0 when there is none.  No token of the vocabulary holds a
\* keyword as a proper part.
FirstKeyword(s, kws) ==
    LET hits == {i \in 1..Len(s) : Up(s[i]) \in kws}
    IN IF hits = {} THEN 0 ELSE Least(hits)

\* The first index after i that holds no whitespace, Len(s)+1 when none.
NextNonSpace(s, i) ==
    LET js == {j \in (i + 1)..Len(s) : ~IsSpace(s[j])}
    IN IF js = {} THEN Len(s) + 1 ELSE Least(js)

\* \bKW\b at token i: the token is the keyword and stands alone as a word.
WordAt(s, i, kws) ==
    /\ Up(s[i]) \in kws
    /\ (i = 1 \/ ~EndsWordChar(s[i - 1]))
    /\ (i = Len(s) \/ ~StartsWordChar(s[i + 1]))

\* re.search(r'\b(A|B|...)\b', s, re.IGNORECASE).
HasWord(s, kws) == \E i \in 1..Len(s) : WordAt(s, i, kws)

\* r'A\s+B' starting at token i (upper-cased text).
PairAt(s, i, a, b) ==
    LET j == NextNonSpace(s, i)
    IN Up(s[i]) = a /\ j > i + 1 /\ j <= Len(s) /\ Up(s[j]) = b

\* r';\s*A' starting at token i.
ChainedAt(s, i, a) ==
    LET j == NextNonSpace(s, i)
    IN s[i] = Semi /\ j <= Len(s) /\ Up(s[j]) = a

\* The end of the run of word tokens starting at j (j - 1 when s[j] is none).
WordRunEnd(s, j) ==
    LET stops == {k \in j..Len(s) : ~IsWord(s[k])}
    IN IF stops = {} THEN Len(s) ELSE Least(stops) - 1

-----------------------------------------------------------------------------
(* SQLValidator  (src/src/services/sql_validator.py) *)

\* The one-word members of safe_keywords; its two-word members ('INNER JOIN',
\* 'GROUP BY', ...) never equal a \w+ word.
safe_keywords ==
    {"SELECT", "FROM", "WHERE", "JOIN", "LIMIT", "COUNT", "SUM", "AVG", "MAX",
     "MIN", "DISTINCT", "HAVING", "UNION", "EXISTS", "IN", "LIKE", "BETWEEN",
     "AND", "OR", "NOT", "AS", "ON", "USING", "CREATE", "DROP", "ALTER",
     "INSERT", "UPDATE", "DELETE", "COMMIT", "ROLLBACK", "BEGIN"}

\* r'DELETE\s+FROM\s+\w+$' at token i: the word after FROM runs to the end of
\* the text ($ also matches before one final newline).
DeleteNoWhereAt(s, i) ==
    LET j == NextNonSpace(s, i)
        k == NextNonSpace(s, j)
        e == WordRunEnd(s, k)
    IN /\ PairAt(s, i, "DELETE", "FROM")
       /\ k > j + 1 /\ k <= Len(s) /\ e >= k
       /\ (e = Len(s) \/ (e = Len(s) - 1 /\ s[Len(s)] = NL))

\* r'UPDATE\s+\w+\s+SET' at token i.
UpdateSetAt(s, i) ==
    LET j == NextNonSpace(s, i)
        e == WordRunEnd(s, j)
        k == NextNonSpace(s, e)
    IN /\ Up(s[i]) = "UPDATE" /\ j > i + 1 /\ j <= Len(s) /\ e >= j
       /\ k > e + 1 /\ k <= Len(s) /\ Up(s[k]) = "SET"

\* r'INSERT\s+INTO\s+\w+\s+VALUES' at token i.
InsertValuesAt(s, i) ==
    LET j == NextNonSpace(s, i)
        k == NextNonSpace(s, j)
        e == WordRunEnd(s, k)
        m == NextNonSpace(s, e)
    IN /\ PairAt(s, i, "INSERT", "INTO")
       /\ k > j + 1 /\ k <= Len(s) /\ e >= k
       /\ m > e + 1 /\ m <= Len(s) /\ Up(s[m]) = "VALUES"

\* dangerous_patterns, in the order of the list.  EXECUTE, EXEC, SP_ and XP_
\* occur in no token of the vocabulary.
DangerousPatterns ==
    <<"DROP\\s+TABLE", "DROP\\s+DATABASE", "TRUNCATE", "DELETE\\s+FROM\\s+\\w+$",
      "UPDATE\\s+\\w+\\s+SET", "INSERT\\s+INTO\\s+\\w+\\s+VALUES",
      "ALTER\\s+TABLE", "CREATE\\s+TABLE", ";\\s*DROP", ";\\s*TRUNCATE",
      ";\\s*ALTER", ";\\s*CREATE">>

\* re.search(DangerousPatterns[p], sql_upper).
DangerousMatch(s, p) ==
    \E i \in 1..Len(s) :
        CASE p = 1  -> PairAt(s, i, "DROP", "TABLE")
          [] p = 2  -> PairAt(s, i, "DROP", "DATABASE")
          [] p = 3  -> Up(s[i]) = "TRUNCATE"
          [] p = 4  -> DeleteNoWhereAt(s, i)
          [] p = 5  -> UpdateSetAt(s, i)
          [] p = 6  -> InsertValuesAt(s, i)
          [] p = 7  -> PairAt(s, i, "ALTER", "TABLE")
          [] p = 8  -> PairAt(s, i, "CREATE", "TABLE")
          [] p = 9  -> ChainedAt(s, i, "DROP")
          [] p = 10 -> ChainedAt(s, i, "TRUNCATE")
          [] p = 11 -> ChainedAt(s, i, "ALTER")
          [] OTHER  -> ChainedAt(s, i, "CREATE")

\* len(re.findall(r'\b\w+\b', sql_upper)): the maximal runs of word
\* characters.  A run starts in token i when the token opens a word that does
\* not continue the previous token.
WordCount(s) ==
    Cardinality({i \in 1..Len(s) :
        \/ s[i] \in {FenceSql, "%27"}
        \/ StartsWordChar(s[i]) /\ (i = 1 \/ ~EndsWordChar(s[i - 1]))})

\* The words of sql_upper that are members of safe_keywords.
SafeCount(s) == Cardinality({i \in 1..Len(s) : WordAt(s, i, safe_keywords)})

\* SQLValidator.is_safe_sql.  safety_ratio < 0.3 is compared exactly.
is_safe_sql(sql) ==
    IF sql = <<>> THEN [safe |-> FALSE, reason |-> "Empty SQL"]
    ELSE LET hits  == {p \in 1..Len(DangerousPatterns) : DangerousMatch(sql, p)}
             total == WordCount(sql)
             safe  == SafeCount(sql)
         IN IF hits # {}
            THEN [safe |-> FALSE,
                  reason |-> "Dangerous SQL pattern detected: "
                             \o DangerousPatterns[Least(hits)]]
            ELSE IF total = 0 \/ safe * 10 < 3 * total
            THEN [safe |-> FALSE, reason |-> "Low safety ratio"]
            ELSE [safe |-> TRUE, reason |-> "SQL appears safe"]

\* The tokens a line is searched for by the "looks like SQL" checks.
LineKeywordsValidator ==
    {"SELECT", "FROM", "WHERE", "JOIN", "GROUP", "ORDER", "LIMIT", "INSERT",
     "UPDATE", "DELETE", "AND", "OR", "IN", "LIKE", "COUNT", "SUM", "AVG",
     "MAX", "MIN"}

\* Tokens holding one of ( ) = < >.
SqlChars5 == {"(", ")", "=", ">", "char("}

\* Tokens holding one of ( ) = < > , . ' ".
SqlChars9 == SqlChars5 \cup {",", "."}

\* A token that starts with Explanation, Note, This, The query or The SQL
\* (ignoring case).
StartsExplanation(t) == t \in {"Explanation", "Note:", "This"}

\* A line holds one of 'explanation', 'note', 'this query', 'the sql',
\* 'returns', 'finds' (lower-cased).
HasExplanationWord(line) ==
    \/ \E i \in 1..Len(line) : line[i] \in {"Explanation", "Note:", "returns"}
    \/ \E i \in 1..(Len(line) - 2) :
          line[i] = "This" /\ line[i + 1] = SP /\ line[i + 2] = "query"

\* r';\s*(?:\n|$)' at token i: the whitespace after the ';' holds a newline
\* or runs to the end of the text.
SemiLineEndAt(s, i) ==
    LET j == NextNonSpace(s, i)
    IN s[i] = Semi /\ (j = Len(s) + 1 \/ \E k \in (i + 1)..(j - 1) : s[k] = NL)

\* r';\s*(?=Explanation|Note|This|The query|The SQL)' at token i.
SemiExplanationAt(s, i) ==
    LET j == NextNonSpace(s, i)
    IN s[i] = Semi /\ j <= Len(s) /\ StartsExplanation(s[j])

\* The loop of clean_sql over the lines (sql_validator.py 64-71): the lines
\* kept before the first explanation line or long line without SQL.
RECURSIVE ValidatorKeepLines(_)
ValidatorKeepLines(lines) ==
    IF lines = <<>> THEN <<>>
    ELSE LET line == Head(lines)
             st   == Strip(line)
         IN IF HasExplanationWord(line) THEN <<>>
            ELSE IF /\ st # <<>>
                    /\ ~HasWord(line, LineKeywordsValidator)
                    /\ SumLen(st) > 50
                    /\ ~\E i \in 1..Len(line) : line[i] \in SqlChars5
                 THEN <<>>
            ELSE <<line>> \o ValidatorKeepLines(Tail(lines))

\* re.sub(r'^[`\s]*', '', s) and re.sub(r'[`\s]*$', '', s).  A FenceSql
\* token never reaches these calls: the fences are removed before.
StripTicks(s) ==
    LET keep == {i \in 1..Len(s) : ~IsSpace(s[i]) /\ s[i] # Fence}
    IN IF keep = {} THEN <<>> ELSE SubSeq(s, Least(keep), Greatest(keep))

\* The regular expressions r'```sql\s*' then r'```\s*' replaced by ''.
RemoveFences(s) ==
    RemoveWithSpace(RemoveWithSpace(s, {FenceSql}, FALSE), {Fence}, FALSE)

\* 'Add semicolon if missing (only for valid SQL statements)'.
AppendSemi(sql) ==
    IF sql # <<>> /\ ~EndsWithSemi(sql) /\ HasWord(sql, TerminatedKeywords)
    THEN sql \o <<Semi>> ELSE sql

\* SQLValidator.clean_sql.  Of end_patterns the second, r';\s*(?=\n\n)', can
\* match only where the first one matches, so it never decides.
clean_sql(sql) ==
    IF sql = <<>> THEN <<>>
    ELSE LET s0    == RemoveFences(sql)
             start == FirstKeyword(s0, StmtKeywords)
         IN IF start = 0 THEN <<>>
            ELSE LET text  == Slice(s0, start, Len(s0))
                     ends1 == {i \in 1..Len(text) : SemiLineEndAt(text, i)}
                     ends3 == {i \in 1..Len(text) : SemiExplanationAt(text, i)}
                     cut   == IF ends1 # {}
                              THEN Strip(Slice(text, 1, Least(ends1)))
                              ELSE IF ends3 # {}
                              THEN Strip(Slice(text, 1, Least(ends3)))
                              ELSE text
                     body  == IF ~EndsWithSemi(Strip(cut))
                              THEN Strip(Join(ValidatorKeepLines(SplitLines(cut)), NL))
                              ELSE cut
                 IN AppendSemi(StripTicks(RStrip(body)))

\* Database.checkSyntax: what the connection answers to EXPLAIN <sql>.  The
\* database is external; it can accept only text that starts with a statement.
ExplainAnswers(sql) ==
    IF sql # <<>> /\ Up(sql[1]) \in StmtKeywords THEN {TRUE, FALSE} ELSE {FALSE}

\* SQLValidator.validate_and_clean, given the database's answer ok.  explain
\* lists the statements sent to the database by validate_sql_syntax.
validate_and_clean(sql, ok) ==
    LET c  == clean_sql(sql)
        sc == is_safe_sql(c)
    IN IF c = <<>>
       THEN [cleaned_sql |-> c, is_valid |-> FALSE, is_safe |-> FALSE,
             syntax_error |-> "No valid SQL found", safety_issues |-> NoneVal,
             explain |-> <<>>]
       ELSE IF ~sc.safe
       THEN [cleaned_sql |-> c, is_valid |-> FALSE, is_safe |-> FALSE,
             syntax_error |-> NoneVal, safety_issues |-> sc.reason,
             explain |-> <<>>]
       ELSE [cleaned_sql |-> c, is_valid |-> ok, is_safe |-> TRUE,
             syntax_error |-> IF ok THEN NoneVal ELSE "engine error",
             safety_issues |-> NoneVal, explain |-> <<c>>]

-----------------------------------------------------------------------------
(* PromptBuilder: the SQL extractor  (src/src/services/prompt_builder.py)  *)
(*                                                                         *)
(* Patterns whose text occurs in no token of the vocabulary never match    *)
(* and are left out: the labels 'SQL Query:', the instruction phrases      *)
(* 'with GROUP BY', 'Do NOT include', 'Return ONLY', '###', 'The SQL',     *)
(* 'Ensure the query', 'statements', and the '-' of line 474.              *)

LineKeywordsExtract ==
    LineKeywordsValidator \cup
    {"AS", "ON", "USING", "INNER", "LEFT", "RIGHT", "OUTER"}

LineKeywordsClean ==
    LineKeywordsExtract \cup {"HAVING", "UNION", "EXCEPT", "INTERSECT"}

\* 'use ' occurs in the (stripped, lower-cased) line.
HasInstruction(ls) ==
    \E i \in 1..(Len(ls) - 1) : Up(ls[i]) = "USE" /\ ls[i + 1] = SP

\* r'^.*?SQL:\s*' replaced by '' (ignoring case): the text through the first
\* SQL: label and the whitespace after it is removed.
DropThroughLabel(s) ==
    LET labels == {i \in 1..Len(s) : Up(s[i]) = SqlLabel}
    IN IF labels = {} THEN s
       ELSE LET j == NextNonSpace(s, Least(labels))
            IN Slice(s, j, Len(s))

\* The loop of _clean_extracted_sql over the lines (443-464): the lines kept.
RECURSIVE CleanKeepLines(_, _)
CleanKeepLines(lines, kept) ==
    IF lines = <<>> THEN kept
    ELSE LET line == Head(lines)
             ls   == Strip(line)
             rest == Tail(lines)
         IN IF ls = <<>> /\ kept = <<>> THEN CleanKeepLines(rest, kept)
            ELSE IF HasInstruction(ls) /\ ~(Up(ls[1]) \in StmtKeywords)
                 THEN CleanKeepLines(rest, kept)
            ELSE IF /\ SumLen(ls) > 80
                    /\ ~HasWord(line, LineKeywordsClean)
                    /\ ~\E i \in 1..Len(line) : line[i] \in SqlChars9
                 THEN CleanKeepLines(rest, kept)
            ELSE CleanKeepLines(rest, Append(kept, line))

\* [line.strip() for line in sql.split('\n') if line.strip()].
RECURSIVE StrippedLines(_)
StrippedLines(lines) ==
    IF lines = <<>> THEN <<>>
    ELSE IF Strip(Head(lines)) = <<>> THEN StrippedLines(Tail(lines))
    ELSE <<Strip(Head(lines))>> \o StrippedLines(Tail(lines))

\* PromptBuilder._clean_extracted_sql.
clean_extracted_sql(sql) ==
    IF sql = <<>> THEN <<>>
    ELSE LET s1 == DropThroughLabel(sql)
             s2 == Strip(Join(CleanKeepLines(SplitLines(s1), <<>>), NL))
             s3 == StripTicks(s2)
             s4 == Join(StrippedLines(SplitLines(s3)), SP)
         IN AppendSemi(s4)

\* The match of r'```sql\s*(.*?)\s*```': <<i, j>>, the opening fence and the
\* first fence after it, <<0, 0>> when there is no such pair.
CodeBlock(s) ==
    LET opens == {i \in 1..Len(s) : s[i] = FenceSql}
    IN IF opens = {} THEN <<0, 0>>
       ELSE LET i      == Least(opens)
                closes == {j \in (i + 1)..Len(s) : s[j] \in {Fence, FenceSql}}
            IN IF closes = {} THEN <<0, 0>> ELSE <<i, Least(closes)>>

\* r'SQL:\s*(SELECT|...)': the index of the keyword after the first label
\* that is followed by one, 0 when there is none.
LabelledStart(s) ==
    LET hits == {i \in 1..Len(s) :
                    /\ Up(s[i]) = SqlLabel
                    /\ NextNonSpace(s, i) <= Len(s)
                    /\ Up(s[NextNonSpace(s, i)]) \in StmtKeywords}
    IN IF hits = {} THEN 0 ELSE NextNonSpace(s, Least(hits))

\* end_keywords (362-371) in list order: 'Explanation', 'Note:',
\* 'This query', 'Use\s+(WHERE|GROUP BY|JOIN)'.  The index where the first
\* pattern of the list that matches starts, 0 when none matches.
EndKeywordStart(s) ==
    LET expl == {i \in 1..Len(s) : s[i] = "Explanation"}
        note == {i \in 1..Len(s) : s[i] = "Note:"}
        this == {i \in 1..(Len(s) - 2) :
                    s[i] = "This" /\ s[i + 1] = SP /\ s[i + 2] = "query"}
        use  == {i \in 1..Len(s) :
                    /\ Up(s[i]) = "USE"
                    /\ NextNonSpace(s, i) > i + 1
                    /\ NextNonSpace(s, i) <= Len(s)
                    /\ Up(s[NextNonSpace(s, i)]) \in {"WHERE", "JOIN"}}
    IN IF expl # {} THEN Least(expl)
       ELSE IF note # {} THEN Least(note)
       ELSE IF this # {} THEN Least(this)
       ELSE IF use # {} THEN Least(use)
       ELSE 0

\* The loop of extract_sql_from_response over the lines (384-398).
RECURSIVE ExtractKeepLines(_)
ExtractKeepLines(lines) ==
    IF lines = <<>> THEN <<>>
    ELSE LET line == Head(lines)
             ls   == Strip(line)
         IN IF HasInstruction(ls) THEN <<>>
            ELSE IF SumLen(ls) > 100 /\ ~HasWord(line, LineKeywordsExtract)
                 THEN <<>>
            ELSE <<line>> \o ExtractKeepLines(Tail(lines))

\* The end of the statement in sql_text (354-401).
StatementOf(text) ==
    LET ends == {i \in 1..Len(text) : SemiLineEndAt(text, i)}
        stop == EndKeywordStart(text)
    IN IF ends # {} THEN Strip(Slice(text, 1, Least(ends)))
       ELSE IF stop # 0 THEN Strip(Slice(text, 1, stop - 1))
       ELSE Strip(Join(ExtractKeepLines(SplitLines(text)), NL))

\* sql.split(';')[0] + ';'.
FirstStatement(sql) ==
    LET semis == {i \in 1..Len(sql) : sql[i] = Semi}
    IN Slice(sql, 1, Least(semis))

\* The part of extract_sql_from_response after the code-block attempt.
ExtractUnfenced(response) ==
    LET s0    == RemoveFences(response)
        lab   == LabelledStart(s0)
        start == IF lab # 0 THEN lab ELSE FirstKeyword(s0, StmtKeywords)
    IN IF start = 0 THEN <<>>
       ELSE LET sql == clean_extracted_sql(StatementOf(Slice(s0, start, Len(s0))))
            IN IF CountSemi(sql) > 1 THEN FirstStatement(sql) ELSE sql

\* PromptBuilder.extract_sql_from_response.
extract_sql_from_response(response) ==
    IF response = <<>> THEN <<>>
    ELSE LET cb    == CodeBlock(response)
             inner == IF cb[1] = 0 THEN <<>>
                      ELSE clean_extracted_sql(
                               Strip(Slice(response, cb[1] + 1, cb[2] - 1)))
         IN IF inner # <<>> THEN inner ELSE ExtractUnfenced(response)

-----------------------------------------------------------------------------
(* PromptBuilder: input validation  (prompt_builder.py 37-82) *)

MIN_QUERY_LENGTH == 3
MAX_QUERY_LENGTH == 2000

\* r';\s*DROP\s+' and r';\s*TRUNCATE\s+' at token i (ignoring case).
ChainedThenSpaceAt(s, i, a) ==
    LET j == NextNonSpace(s, i)
    IN ChainedAt(s, i, a) /\ j < Len(s) /\ IsSpace(s[j + 1])

\* r';\s*DELETE\s+FROM\s+\w+\s*;' at token i.
ChainedDeleteAt(s, i) ==
    LET j == NextNonSpace(s, i)
        k == NextNonSpace(s, j)
        m == NextNonSpace(s, k)
        e == WordRunEnd(s, m)
        z == NextNonSpace(s, e)
    IN /\ ChainedAt(s, i, "DELETE")
       /\ k > j + 1 /\ k <= Len(s) /\ Up(s[k]) = "FROM"
       /\ m > k + 1 /\ m <= Len(s) /\ e >= m
       /\ z <= Len(s) /\ s[z] = Semi

\* BLOCK_PATTERNS; xp_cmdshell, exec( and execute( occur in no token.
MatchesBlockPattern(q) ==
    \E i \in 1..Len(q) :
        \/ ChainedThenSpaceAt(q, i, "DROP")
        \/ ChainedDeleteAt(q, i)
        \/ ChainedThenSpaceAt(q, i, "TRUNCATE")

\* WARN_PATTERNS: r'UNION\s+SELECT', r'--', r'/\*.*?\*/' (ignoring case).  A
\* match is logged and decides nothing.
MatchesWarnPattern(q) ==
    \E i \in 1..Len(q) :
        \/ PairAt(q, i, "UNION", "SELECT")
        \/ q[i] \in {"--", "/*x*/"}

RECURSIVE SumSpecial(_)
SumSpecial(s) ==
    IF s = <<>> THEN 0 ELSE SpecialCount(Head(s)) + SumSpecial(Tail(s))

\* validate_user_input with the warning patterns treated as blocking ones.
validate_user_input_WarnBlocks(user_query) ==
    LET query == Strip(user_query)
    IN IF query = <<>> THEN <<FALSE, "Query cannot be empty">>
       ELSE IF SumLen(query) < MIN_QUERY_LENGTH
            THEN <<FALSE, "Query too short">>
       ELSE IF SumLen(query) > MAX_QUERY_LENGTH
            THEN <<FALSE, "Query too long">>
       ELSE IF MatchesBlockPattern(query) \/ MatchesWarnPattern(query)
            THEN <<FALSE, "Query contains potentially dangerous SQL patterns">>
       ELSE IF SumSpecial(query) * 10 > SumLen(query) * 3
            THEN <<FALSE, "Query contains too many special characters">>
       ELSE IF \E i \in 1..(Len(query) - 1) :
                   query[i] = Semi /\ query[i + 1] = Semi
            THEN <<FALSE, "Query contains invalid syntax">>
       ELSE IF \E i \in 1..Len(query) : query[i] \in {"%27", "char("}
            THEN <<FALSE, "Query contains encoded or suspicious characters">>
       ELSE <<TRUE, NoneVal>>

\* PromptBuilder.validate_user_input: <<is_valid, error_message>>.
validate_user_input(user_query) ==
    LET query == Strip(user_query)
    IN IF query = <<>> THEN <<FALSE, "Query cannot be empty">>
       ELSE IF SumLen(query) < MIN_QUERY_LENGTH
            THEN <<FALSE, "Query too short">>
       ELSE IF SumLen(query) > MAX_QUERY_LENGTH
            THEN <<FALSE, "Query too long">>
       ELSE IF MatchesBlockPattern(query)
            THEN <<FALSE, "Query contains potentially dangerous SQL patterns">>
       ELSE IF SumSpecial(query) * 10 > SumLen(query) * 3
            THEN <<FALSE, "Query contains too many special characters">>
       ELSE IF \E i \in 1..(Len(query) - 1) :
                   query[i] = Semi /\ query[i + 1] = Semi
            THEN <<FALSE, "Query contains invalid syntax">>
       ELSE IF \E i \in 1..Len(query) : query[i] \in {"%27", "char("}
            THEN <<FALSE, "Query contains encoded or suspicious characters">>
       ELSE <<TRUE, NoneVal>>

-----------------------------------------------------------------------------
(* ConfidenceAnalyzer  (src/src/services/confidence_analyzer.py) *)
(*                                                                         *)
(* A probability is an integer number of percent.  An average is kept as   *)
(* the exact fraction num/den; the floating-point error of the source's    *)
(* sum(...)/len(...) is not modelled.  Python's None is the record with    *)
(* none = TRUE.                                                            *)

NoneScore == [none |-> TRUE, num |-> 0, den |-> 1]

RECURSIVE SumSeq(_)
SumSeq(s) == IF s = <<>> THEN 0 ELSE Head(s) + SumSeq(Tail(s))

SeqMin(s) == Least({s[i] : i \in 1..Len(s)})
SeqMax(s) == Greatest({s[i] : i \in 1..Len(s)})

\* The sum of the probabilities, not divided by their number.
AverageSum(confidences) ==
    [none |-> FALSE, num |-> SumSeq(confidences), den |-> 100]

\* sum(confidences) / len(confidences) if confidences else 0.0
Average(confidences) ==
    IF confidences = <<>> THEN [none |-> FALSE, num |-> 0, den |-> 1]
    ELSE [none |-> FALSE, num |-> SumSeq(confidences),
          den |-> 100 * Len(confidences)]

\* score >= t/100
AtLeast(score, t) == score.num * 100 >= t * score.den

\* round(x, d) for x = num/den >= 0, in units of 10^-d (scale = 10^d); exact
\* ties go to the even neighbour.
RoundTo(num, den, scale) ==
    LET n == num * scale
        q == n \div den
        r == n % den
    IN IF 2 * r > den \/ (2 * r = den /\ q % 2 = 1) THEN q + 1 ELSE q

\* ConfidenceAnalyzer._interpret_confidence.
analyzer_interpret_confidence(score) ==
    IF score.none THEN "Unknown"
    ELSE IF AtLeast(score, 85) THEN "High"
    ELSE IF AtLeast(score, 65) THEN "Medium"
    ELSE IF AtLeast(score, 45) THEN "Low"
    ELSE "Very Low"

\* ConfidenceAnalyzer.calculate_token_confidence.  scores.vals is the
\* sequence of per-token top probabilities; scores.err says that computing the
\* softmax of one of them raises.  The rounded values are in thousandths.
calculate_token_confidence(scores) ==
    IF scores.vals = <<>>
    THEN [avg_confidence |-> 0, min_confidence |-> 0, max_confidence |-> 0,
          confidence_scores |-> <<>>, confidence_label |-> "Unknown"]
    ELSE IF scores.err
    THEN [avg_confidence |-> 0, min_confidence |-> 0, max_confidence |-> 0,
          confidence_scores |-> <<>>, confidence_label |-> "Error"]
    ELSE LET c   == scores.vals
             avg == Average(c)
         IN [avg_confidence |-> RoundTo(avg.num, avg.den, 1000),
             min_confidence |-> RoundTo(SeqMin(c), 100, 1000),
             max_confidence |-> RoundTo(SeqMax(c), 100, 1000),
             confidence_scores |->
                 [i \in 1..Len(c) |-> RoundTo(c[i], 100, 1000)],
             confidence_label |-> analyzer_interpret_confidence(avg)]

-----------------------------------------------------------------------------
(* EnhancedText2SQLService  (src/src/services/text2sql_service.py) *)

\* str.lower() of a token, for the tokens whose case matters to a match.
Lower(t) ==
    CASE t = "Students" -> "students"
      [] t = "Score"    -> "score"
      [] OTHER          -> t

\* Pairs <<t, w>>: the word w is a proper part of the (lower-cased) token t.
ProperParts ==
    {<<"students", "student">>, <<"courses", "course">>,
     <<"teachers", "teacher">>, <<"grades", "grade">>}

\* w in text.lower(), for a word w that no two adjacent tokens spell.
Occurs(w, text) ==
    \E i \in 1..Len(text) : Lower(text[i]) = w \/ <<Lower(text[i]), w>> \in ProperParts

\* relevant_tables[:3]
SERVICE_MAX_TABLES == 3

\* table_name.lower() in query_lower or any(col name in query_lower)
TableMentioned(table, q) ==
    \/ Occurs(Lower(table.name), q)
    \/ \E c \in 1..Len(table.cols) : Occurs(Lower(table.cols[c]), q)

\* The loop over schema_info.items() (171-173): the tables mentioned, in
\* schema order.
RECURSIVE MentionedTables(_, _)
MentionedTables(tables, q) ==
    IF tables = <<>> THEN <<>>
    ELSE IF TableMentioned(Head(tables), q)
         THEN <<Head(tables)>> \o MentionedTables(Tail(tables), q)
    ELSE MentionedTables(Tail(tables), q)

\* EnhancedText2SQLService.create_schema_context: the names of the tables
\* rendered as 'Table:' blocks after the 'Database Schema:' header.
create_schema_context(schema_info, user_query) ==
    LET hit      == MentionedTables(schema_info, user_query)
        relevant == IF hit = <<>> THEN schema_info ELSE hit
        shown    == Slice(relevant, 1, Min2(SERVICE_MAX_TABLES, Len(relevant)))
    IN [i \in 1..Len(shown) |-> shown[i].name]

\* The text create_schema_context returns for the tables it shows: the
\* header (178) and one 'Table:' block for each table (179-183).
SchemaContextText(tables) == <<"Database Schema:">> \o tables

\* The text PromptBuilder.build_schema_context returns for a schema that is
\* empty or malformed (prompt_builder.py 145).
NoSchemaText == <<"No valid schema information available.">>

\* EnhancedText2SQLService.create_enhanced_prompt: the prompt is the fixed
\* text with the schema context and the question interpolated.
create_enhanced_prompt(q, schema_context) ==
    [question |-> q, schema |-> schema_context]

\* EnhancedText2SQLService.clean_sql_output.
clean_sql_output(sql) ==
    LET s0    == RemoveFences(sql)
        start == FirstKeyword(s0, ServiceKeywords)
        s1    == IF start # 0 THEN Strip(Slice(s0, start, Len(s0))) ELSE s0
        s2    == RStrip(s1)
    IN IF EndsWithSemi(s2) THEN s2 ELSE s2 \o <<Semi>>

\* EnhancedText2SQLService.interpret_confidence.
interpret_confidence(score) ==
    IF score.none THEN "Unknown"
    ELSE IF AtLeast(score, 85) THEN "High"
    ELSE IF AtLeast(score, 65) THEN "Medium"
    ELSE "Low"

\* The token confidence of generate_sql (299-306).
TokenConfidence(scores) ==
    IF scores.err THEN NoneScore ELSE Average(scores.vals)

\* round(token_conf * 100, 2) if token_conf is not None else None, in
\* hundredths: the value reported is val / 100.
ReportedConfidence(token_conf) ==
    IF token_conf.none THEN [none |-> TRUE, val |-> 0]
    ELSE [none |-> FALSE,
          val |-> RoundTo(token_conf.num * 100, token_conf.den, 100)]

Select1 == <<"SELECT", SP, "1", Semi>>

NoResult == [none |-> TRUE]

\* The returned dict with a validity that also asks for a token confidence.
SuccessResultGated(cleaned_sql, is_valid, raw_sql, schema_context, token_conf) ==
    [sql |-> cleaned_sql, valid |-> is_valid /\ ~token_conf.none,
     raw_output |-> raw_sql, schema_used |-> schema_context,
     confidence |-> ReportedConfidence(token_conf),
     confidence_label |-> interpret_confidence(token_conf)]

\* The dict returned at the end of the try block (311-318).
SuccessResult(cleaned_sql, is_valid, raw_sql, schema_context, token_conf) ==
    [sql |-> cleaned_sql, valid |-> is_valid, raw_output |-> raw_sql,
     schema_used |-> schema_context,
     confidence |-> ReportedConfidence(token_conf),
     confidence_label |-> interpret_confidence(token_conf)]

\* The dict returned by the except block (322-327).
FallbackResult(e) ==
    [sql |-> Select1, valid |-> FALSE, error |-> e, raw_output |-> <<>>]

\* generate_sql without its except block: the exception reaches the caller.
OnExceptionRaises(e) == [raised |-> TRUE, result |-> NoResult]

\* What generate_sql does with an exception of its try block (320-327): it
\* returns the fallback dict and raises nothing.
OnException(e) == [raised |-> FALSE, result |-> FallbackResult(e)]

-----------------------------------------------------------------------------
(* PromptBuilder: the schema selector  (prompt_builder.py 84-217)          *)
(*                                                                         *)
(* A schema is the sequence of its tables in the order of the dict; a      *)
(* table is its name and the names of its columns.                         *)

\* MAX_SCHEMA_TABLES (default of the environment variable).
MAX_SCHEMA_TABLES == 10

\* Number of tables of the largest schema enumerated.
MaxTables == 11

\* The k-th table of the large schemas, for k > 4, and its name without the
\* last letter.
TabStem(k) == "t" \o ToString(k)
TabName(k) == TabStem(k) \o "x"

\* table_name_lower[:-1]
ButLast(name) ==
    CASE name = "students" -> "student"
      [] name = "courses"  -> "course"
      [] name = "teachers" -> "teacher"
      [] name = "grades"   -> "grade"
      [] OTHER -> TabStem(CHOOSE k \in 5..MaxTables : name = TabName(k))

\* w in query_lower, for a word w that no two adjacent tokens spell.
OccursInQuery(w, q) ==
    \/ Occurs(w, q)
    \/ \E i \in 1..Len(q) : \E k \in 5..MaxTables :
          q[i] = TabName(k) /\ w = TabStem(k)

\* re.sub(r'--.*?$', '', query, flags=re.MULTILINE): a comment runs to the
\* end of its line.
RECURSIVE RemoveLineComments(_, _)
RemoveLineComments(s, inComment) ==
    IF s = <<>> THEN <<>>
    ELSE IF Head(s) = NL THEN <<NL>> \o RemoveLineComments(Tail(s), FALSE)
    ELSE IF inComment \/ Head(s) = "--" THEN RemoveLineComments(Tail(s), TRUE)
    ELSE <<Head(s)>> \o RemoveLineComments(Tail(s), FALSE)

\* re.sub(r'/\*.*?\*/', '', query, flags=re.DOTALL)
RemoveBlockComments(s) == SelectSeq(s, LAMBDA t : t # "/*x*/")

\* re.sub(r'\s+', ' ', query)
RECURSIVE CollapseSpaces(_)
CollapseSpaces(s) ==
    IF s = <<>> THEN <<>>
    ELSE IF IsSpace(Head(s))
         THEN <<SP>> \o CollapseSpaces(Slice(s, NextNonSpace(s, 1), Len(s)))
    ELSE <<Head(s)>> \o CollapseSpaces(Tail(s))

\* PromptBuilder.sanitize_user_input.
sanitize_user_input(user_query) ==
    IF user_query = <<>> THEN <<>>
    ELSE Strip(CollapseSpaces(RemoveBlockComments(
             RemoveLineComments(Strip(user_query), FALSE))))

\* PromptBuilder.validate_schema_info: <<is_valid, error_message>>.  The
\* isinstance checks hold of every schema of the model.
validate_schema_info(schema_info) ==
    IF schema_info = <<>> THEN <<FALSE, "Schema information is empty">>
    ELSE IF \E i \in 1..Len(schema_info) : schema_info[i].cols = <<>>
         THEN <<FALSE, "Table has no columns">>
    ELSE <<TRUE, NoneVal>>

\* The score of a table without the points for its columns.
TableScoreNameOnly(table, q) ==
    LET name == Lower(table.name)
    IN (IF OccursInQuery(name, q) THEN 10 ELSE 0)
       + (IF OccursInQuery(ButLast(name), q) \/ OccursInQuery(name \o "s", q)
          THEN 5 ELSE 0)

\* The score of a table in _find_relevant_tables (193-208).
TableScore(table, q) ==
    LET name == Lower(table.name)
    IN (IF OccursInQuery(name, q) THEN 10 ELSE 0)
       + (IF OccursInQuery(ButLast(name), q) \/ OccursInQuery(name \o "s", q)
          THEN 5 ELSE 0)
       + 3 * Cardinality({c \in 1..Len(table.cols) :
                            OccursInQuery(Lower(table.cols[c]), q)})

\* sorted(keys, key=score, reverse=True) over the indices S: the highest
\* score first, equal scores in the order of the schema.
RECURSIVE SortByScore(_, _, _)
SortByScore(S, schema_info, q) ==
    IF S = {} THEN <<>>
    ELSE LET sc(i) == TableScore(schema_info[i], q)
             best == CHOOSE i \in S :
                        \A j \in S : sc(i) > sc(j) \/ (sc(i) = sc(j) /\ i <= j)
         IN <<schema_info[best].name>> \o
            SortByScore(S \ {best}, schema_info, q)

\* PromptBuilder._find_relevant_tables: the names of the tables with a score
\* above 0.
find_relevant_tables(schema_info, user_query) ==
    SortByScore({i \in 1..Len(schema_info) :
                    TableScore(schema_info[i], user_query) > 0},
                schema_info, user_query)

\* The first n elements of s.
Prefix(s, n) == Slice(s, 1, Min2(n, Len(s)))

\* build_schema_context rendering every relevant table it found.
build_schema_context_NoCap(schema_info, user_query) ==
    IF ~validate_schema_info(schema_info)[1]
    THEN [kind |-> "placeholder", tables |-> <<>>]
    ELSE IF ~validate_user_input(user_query)[1]
    THEN [kind |-> "raise", tables |-> <<>>]
    ELSE LET hit == find_relevant_tables(schema_info,
                                         sanitize_user_input(user_query))
             relevant ==
                 IF hit = <<>>
                 THEN Prefix([i \in 1..Len(schema_info) |-> schema_info[i].name],
                             MAX_SCHEMA_TABLES)
                 ELSE hit
         IN [kind |-> "context", tables |-> relevant]

\* PromptBuilder.build_schema_context.  kind says what the call does: it
\* returns 'No valid schema information available.' (placeholder), raises
\* InputValidationError (raise) or returns the 'Database Schema:' header
\* followed by one 'Table:' block for each name of tables (context).
build_schema_context(schema_info, user_query) ==
    IF ~validate_schema_info(schema_info)[1]
    THEN [kind |-> "placeholder", tables |-> <<>>]
    ELSE IF ~validate_user_input(user_query)[1]
    THEN [kind |-> "raise", tables |-> <<>>]
    ELSE LET hit == find_relevant_tables(schema_info,
                                         sanitize_user_input(user_query))
             relevant ==
                 IF hit = <<>>
                 THEN Prefix([i \in 1..Len(schema_info) |-> schema_info[i].name],
                             MAX_SCHEMA_TABLES)
                 ELSE hit
         IN [kind |-> "context", tables |-> Prefix(relevant, MAX_SCHEMA_TABLES)]

-----------------------------------------------------------------------------
(* ResultSummarizationService  (summarization_service.py 38-361)           *)
(*                                                                         *)
(* A summary is a sequence of tokens.  The texts of the model are built    *)
(* from SummaryVocab: they hold no backtick, no digits followed by ':'     *)
(* other than the row label, and of the words the patterns search for only *)
(* 'Summary:', 'Answer:', 'Data:' and 'SQL'; the substitutions and tests   *)
(* for the other words leave every such text as it is.                     *)

RowLabel == "Row 1:"

\* 'len(summary.strip()) < 10' (121, 128).
MIN_SUMMARY_LENGTH == 10

\* str.split(tok).
RECURSIVE SplitAt(_, _)
SplitAt(s, tok) ==
    LET hits == {i \in 1..Len(s) : s[i] = tok}
    IN IF hits = {} THEN <<s>>
       ELSE <<Slice(s, 1, Least(hits) - 1)>>
            \o SplitAt(Slice(s, Least(hits) + 1, Len(s)), tok)

\* str.split(): the words of a text, each the tokens between white space.
RECURSIVE Words(_)
Words(s) ==
    LET t  == Strip(s)
        sp == {i \in 1..Len(t) : IsSpace(t[i])}
    IN IF t = <<>> THEN <<>>
       ELSE IF sp = {} THEN <<t>>
       ELSE <<Slice(t, 1, Least(sp) - 1)>>
            \o Words(Slice(t, Least(sp) + 1, Len(t)))

\* re.match(r'^[\d\s,]+$', line).
OnlyNumbers(line) ==
    line # <<>> /\ \A i \in 1..Len(line) : line[i] \in {"12", SP}

\* len(set(words)) < len(words) * 0.3
TooRepetitive(line) ==
    LET words == Words(line)
    IN 10 * Cardinality({words[i] : i \in 1..Len(words)}) < 3 * Len(words)

\* The loop over summary.split('.') (311-320).
RECURSIVE KeptSentences(_)
KeptSentences(lines) ==
    IF lines = <<>> THEN <<>>
    ELSE LET line == Strip(Head(lines))
         IN IF line # <<>> /\ ~OnlyNumbers(line) /\ ~TooRepetitive(line)
            THEN <<line>> \o KeptSentences(Tail(lines))
            ELSE KeptSentences(Tail(lines))

\* '. '.join(cleaned_lines)
RECURSIVE JoinSentences(_)
JoinSentences(lines) ==
    IF lines = <<>> THEN <<>>
    ELSE IF Len(lines) = 1 THEN lines[1]
    ELSE lines[1] \o <<".", SP>> \o JoinSentences(Tail(lines))

\* str.upper() of the first character of a token.
Capitalize(t) ==
    CASE t = "students" -> "Students"
      [] t = "enrolled" -> "Enrolled"
      [] OTHER          -> t

\* ResultSummarizationService._clean_summary.  No token of a kept sentence
\* ends with '.', '!' or '?', so the final '.' is always added.
clean_summary(summary) ==
    IF summary = <<>> THEN <<>>
    ELSE LET s1   == RemoveWithSpace(summary, {RowLabel}, FALSE)
             s2   == Strip(CollapseSpaces(s1))
             s3   == Strip(JoinSentences(KeptSentences(SplitAt(s2, "."))))
             s4   == IF s3 # <<>> THEN s3 \o <<".">> ELSE s3
         IN IF s4 = <<>> THEN <<>> ELSE <<Capitalize(s4[1])>> \o Tail(s4)

\* The position of the summary marker the patterns of 232-236 find:
\* 'Summary:' before 'Answer:', the leftmost of each; 0 without a marker.
MarkerAt(response) ==
    LET at(tok) == {i \in 1..Len(response) : response[i] = tok}
    IN IF at("Summary:") # {} THEN Least(at("Summary:"))
       ELSE IF at("Answer:") # {} THEN Least(at("Answer:"))
       ELSE 0

\* The loop over the lines of a response without a marker (254-275).
RECURSIVE KeptSummaryLines(_)
KeptSummaryLines(lines) ==
    IF lines = <<>> THEN <<>>
    ELSE LET line_stripped == Strip(Head(lines))
             skip ==
                 \/ line_stripped = <<>>
                 \/ \E i \in 1..Len(line_stripped) : line_stripped[i] = "Data:"
                 \/ line_stripped[1] = RowLabel
         IN IF skip THEN KeptSummaryLines(Tail(lines))
            ELSE <<Head(lines)>> \o KeptSummaryLines(Tail(lines))

\* ResultSummarizationService._extract_summary_from_response.
extract_summary_from_response(response) ==
    IF response = <<>> THEN <<>>
    ELSE IF MarkerAt(response) # 0
    THEN LET summary == Strip(Slice(response, MarkerAt(response) + 1,
                                    Len(response)))
             cuts    == {i \in 1..Len(summary) :
                            /\ summary[i] = NL
                            /\ \E j \in (i + 1)..Len(summary) :
                                  summary[j] = "SQL"}
         IN IF cuts = {} THEN summary
            ELSE Slice(summary, 1, Least(cuts) - 1)
    ELSE clean_summary(Strip(Join(
             KeptSummaryLines(SplitLines(Strip(response))), NL)))

\* A row of the results: a dict with its column names, a list or tuple with
\* the number of its values, or a value of another type.
DictRow(cols) == [kind |-> "dict", cols |-> cols, width |-> Len(cols)]
ListRow(n)    == [kind |-> "list", cols |-> <<>>, width |-> n]
ScalarRow     == [kind |-> "other", cols |-> <<>>, width |-> 0]

\* The loop of 66-75: dicts are kept, lists and tuples become dicts with the
\* keys col_0, col_1, ..., the other rows are skipped.
RECURSIVE NormalizeRows(_)
NormalizeRows(results) ==
    IF results = <<>> THEN <<>>
    ELSE LET row == Head(results)
         IN CASE row.kind = "dict" ->
                   <<row>> \o NormalizeRows(Tail(results))
              [] row.kind = "list" ->
                   <<DictRow([j \in 1..row.width |->
                                 "col_" \o ToString(j - 1)])>>
                   \o NormalizeRows(Tail(results))
              [] OTHER -> NormalizeRows(Tail(results))

NoDataText == <<"No data was found matching your criteria.">>

\* ', '.join(columns[:3])
RECURSIVE JoinNames(_)
JoinNames(names) ==
    IF names = <<>> THEN <<>>
    ELSE IF Len(names) = 1 THEN names
    ELSE <<names[1], ", ">> \o JoinNames(Tail(names))

\* _generate_fallback_summary returning an empty summary and no success.
generate_fallback_summary_Empty(results) ==
    [summary |-> <<>>, success |-> FALSE, row_count |-> Len(results),
     summary_type |-> "fallback"]

\* ResultSummarizationService._generate_fallback_summary.
generate_fallback_summary(results) ==
    LET row_count == Len(results)
        columns   == IF results # <<>> THEN results[1].cols ELSE <<>>
        summary   ==
            IF row_count = 0 THEN NoDataText
            ELSE IF row_count = 1
            THEN <<"Found 1 result matching your query.">>
            ELSE IF columns # <<>>
            THEN <<"Found ", ToString(row_count), " results with ",
                   ToString(Len(columns)), " columns: ">>
                 \o JoinNames(Prefix(columns, 3))
                 \o (IF Len(columns) > 3
                     THEN <<" and ", ToString(Len(columns) - 3), " more.">>
                     ELSE <<>>)
            ELSE <<"Found ", ToString(row_count), " results.">>
    IN [summary |-> summary, success |-> TRUE, row_count |-> row_count,
        summary_type |-> "fallback"]

\* 'not summary or len(summary.strip()) < 10'
TooShort(summary) ==
    summary = <<>> \/ SumLen(Strip(summary)) < MIN_SUMMARY_LENGTH

\* The dict returned for a summary of the model (130-137).
GeneratedSummary(summary, results, raw_summary) ==
    [summary |-> summary, success |-> TRUE, row_count |-> Len(results),
     summary_type |-> "llm_generated", raw_output |-> raw_summary]

\* ResultSummarizationService.generate_summary.  generation is what
\* model_handler.generate_with_confidence does: it raises, returns a dict
\* with an error, or returns a text.  called says whether it was called.
generate_summary(results, generation) ==
    IF results = <<>>
    THEN [raised |-> FALSE, called |-> FALSE,
          result |-> [summary |-> NoDataText, success |-> TRUE,
                      row_count |-> 0, summary_type |-> "empty_result"]]
    ELSE IF NormalizeRows(results) = <<>>
    THEN [raised |-> FALSE, called |-> FALSE,
          result |-> [summary |-> <<"No valid data was found to summarize.">>,
                      success |-> FALSE, row_count |-> 0,
                      summary_type |-> "invalid_format"]]
    ELSE LET rows     == NormalizeRows(results)
             fallback == generate_fallback_summary(rows)
             raw_summary == Strip(generation.text)
             summary  == extract_summary_from_response(raw_summary)
             from_raw == clean_summary(raw_summary)
             returned ==
                 IF generation.kind \in {"raise", "error"} THEN fallback
                 ELSE IF raw_summary = <<>> THEN fallback
                 ELSE IF ~TooShort(summary)
                 THEN GeneratedSummary(summary, rows, raw_summary)
                 ELSE IF TooShort(from_raw) THEN fallback
                 ELSE GeneratedSummary(from_raw, rows, raw_summary)
         IN [raised |-> FALSE, called |-> TRUE, result |-> returned]

-----------------------------------------------------------------------------
(* Inputs *)

\* Longest sequence of per-token probabilities enumerated.
MaxProbs == 2

\* Longest raw text enumerated token by token for the extractor.
MaxRawLen == 4

\* All sequences over S of length at most n.
SeqsUpTo(S, n) == UNION {[1..k -> S] : k \in 0..n}

Students == [name |-> "students", cols |-> <<"id", "name", "score">>]
Courses  == [name |-> "courses", cols |-> <<"id", "title">>]
Teachers == [name |-> "teachers", cols |-> <<"id", "name">>]
Grades   == [name |-> "grades", cols |-> <<"student_id", "grade">>]

\* What get_database_schema can read: no table, one table, four tables.
Schemas == {<<>>, <<Students>>, <<Students, Courses, Teachers, Grades>>}

\* The tables of the large schemas, in schema order.
AllTables ==
    [k \in 1..MaxTables |->
        CASE k = 1 -> Students
          [] k = 2 -> Courses
          [] k = 3 -> Teachers
          [] k = 4 -> Grades
          [] OTHER -> [name |-> TabName(k), cols |-> <<"id">>]]

\* The schemas handed to the selector: every prefix of AllTables, and a
\* schema with a table that has no column.
SelectorSchemas ==
    {Prefix(AllTables, n) : n \in 0..MaxTables}
    \cup {<<Students, [name |-> "courses", cols |-> <<>>]>>}

\* A question that names every table.
QAllTables == Join([k \in 1..MaxTables |-> <<AllTables[k].name>>], SP)

\* The questions handed to the selector.
SelectorQuestions ==
    {<<"Show", SP, "all", SP, "students">>, <<"list", SP, "id">>,
     <<"list", SP, "all">>, <<"ab">>, <<>>,
     <<"student", SP, "grades">>,
     <<"courses", SP, "--", SP, "students", NL, "teachers">>,
     <<"title", SP, SP, "/*x*/", SP, "grade">>,
     QAllTables}

QShowAll  == <<"Show", SP, "all", SP, "students">>
QEmpty    == <<>>
QBlank    == <<SP>>
QShort    == <<"ab">>
QLong     == <<HugeWord>>
QChained  == <<"students", Semi, SP, "DROP", SP, "TABLE", SP, "students">>
QSpecial  == <<"!?#", "ab", "!?#">>
QDblSemi  == <<"Show", Semi, Semi, "students">>
QEncoded  == <<"students", SP, "%27">>

\* Longest question enumerated token by token for the input validation.
MaxQuestionLen == 3

QuestionVocab ==
    {"a", "ab", "students", SP, Semi, "DROP", "UNION", "SELECT", "--", "%27"}

\* The questions handed to validate_user_input directly.
QuestionTexts ==
    SeqsUpTo(QuestionVocab, MaxQuestionLen) \cup
    {<<"students", SP, "/*x*/">>, <<HugeWord>>, <<"!?#", "ab", "!?#">>,
     <<"students", Semi, SP, "DELETE", SP, "FROM", SP, "students", Semi>>,
     <<"students", Semi, SP, "TRUNCATE", SP, "students">>,
     <<"students", SP, "char(", "1", ")">>}

\* A question with doubled blanks and a trailing comment.
QComment  == <<"Show", SP, SP, "students", SP, "--", SP, "all">>

Questions == {QShowAll, QEmpty, QBlank, QShort, QLong, QChained, QSpecial,
              QDblSemi, QEncoded, QComment}

RawScenarioA ==
    <<FenceSql, NL, "SELECT", SP, "*", SP, "FROM", SP, "students", SP, "WHERE",
      SP, "score", SP, ">", SP, "80", NL, Fence, NL, "This", SP, "returns", SP,
      "students", ".">>
RawDropTable      == <<"DROP", SP, "TABLE", SP, "students", Semi>>
RawDropNoSemi     == <<"DROP", SP, "TABLE", SP, "students">>
RawTwoStatements  == <<"SELECT", SP, "1", Semi, SP, "SELECT", SP, "2", Semi>>
RawFencedTwo      ==
    <<FenceSql, NL, "SELECT", SP, "1", Semi, SP, "SELECT", SP, "2", Semi, NL,
      Fence>>
RawFencedLines    ==
    <<"Here", NL, FenceSql, NL, "SELECT", SP, "x", NL, SP, SP, "FROM", SP,
      "students", NL, Fence, NL, "hello">>
RawSelect1        == Select1
RawProse          == <<"hello">>
RawEmpty          == <<>>
RawDeleteAll      == <<"DELETE", SP, "FROM", SP, "students", Semi>>
RawDeleteWhere    ==
    <<"DELETE", SP, "FROM", SP, "students", SP, "WHERE", SP, "id", SP, "=",
      SP, "1", Semi>>
RawWithNoSemi     ==
    <<"WITH", SP, "t", SP, "AS", SP, "(", "VALUES", SP, "(", "1", ")", ")",
      SP, "TABLE", SP, "t">>
RawLowerSelect    == <<SP, "select", SP, "1", Semi>>
RawLowerDrop      == <<SP, "drop", SP, "TABLE", SP, "students", Semi>>
RawLabelled       ==
    <<"Use", SP, "WHERE", NL, SqlLabel, SP, "SELECT", SP, "1", NL, "Note:", SP,
      "hello">>
RawLongLine       == <<"SELECT", SP, "1", NL, LongWord>>

\* Texts the model returns in the pipeline (raw_sql is stripped, 296).
PipelineRaw ==
    {RawScenarioA, RawDropTable, RawTwoStatements, RawSelect1, RawProse,
     RawEmpty, RawDeleteAll, RawDropNoSemi}

\* Statements handed to the validator directly.
Statements ==
    {RawDropTable, RawDropNoSemi, RawSelect1, RawDeleteAll, RawDeleteWhere,
     RawWithNoSemi, RawLowerSelect, RawLowerDrop, RawTwoStatements, RawProse,
     RawEmpty, RawScenarioA}

\* Top probabilities in percent; a softmax maximum is never 0.
ProbVals == {20, 45, 65, 85, 100}
ScenarioDProbs == <<90, 92, 88>>

\* Twenty-one tokens whose average, 0.8495..., lies just below the threshold of
\* "High" and rounds to 0.85.
NearHighProbs == [i \in 1..21 |-> IF i = 21 THEN 84 ELSE 85]

\* outputs.scores: the sequences enumerated, Scenario D, and a score whose
\* softmax raises.
ProbInputs ==
    {[err |-> FALSE, vals |-> v] : v \in SeqsUpTo(ProbVals, MaxProbs)
                                   \cup {ScenarioDProbs, NearHighProbs}}
    \cup {[err |-> TRUE, vals |-> <<85>>]}

\* outputs.scores of a run of model.generate: one score per generated token,
\* and generate returns at least one token.
PipelineProbs == {p \in ProbInputs : p.vals # <<>>}

\* Longest results list and longest text of the summary model enumerated
\* token by token.
MaxRows == 3
MaxSummaryLen == 3

SummaryVocab ==
    {"Summary:", "Answer:", "Data:", "students", "enrolled", "12", ".", SP, NL,
     RowLabel, "SQL"}

\* Texts of the summary model longer than MaxSummaryLen: a plain summary, a
\* repetitive one, an echoed prompt with instructions after the summary, a
\* summary marker followed by little, data rows only.
FixedSummaries ==
    {<<"students", SP, "enrolled", SP, "12", ".", SP, "students", NL>>,
     <<"students", SP, "students", SP, "students", SP, "students">>,
     <<"Summary:", SP, "students", SP, "enrolled", NL, "SQL", SP, "12">>,
     <<"Summary:", SP, "12", NL, "students", SP, "enrolled", SP, "12">>,
     <<"Answer:", SP, "students", SP, "enrolled", SP, "Summary:", SP, "12">>,
     <<RowLabel, SP, "12", NL, RowLabel, SP, "12", SP, "students">>,
     <<"Data:", SP, "students", NL, "enrolled", SP, RowLabel, SP, "students",
       ".", "12", SP, "12">>}

SummaryTexts == SeqsUpTo(SummaryVocab, MaxSummaryLen) \cup FixedSummaries

\* What generate_with_confidence does when it is called.
FixedGenerations ==
    {[kind |-> "raise", text |-> <<>>], [kind |-> "error", text |-> <<>>]}
    \cup {[kind |-> "text", text |-> t] : t \in FixedSummaries \cup {<<>>}}

Generations ==
    FixedGenerations \cup {[kind |-> "text", text |-> t] : t \in SummaryTexts}

\* The rows of a results list: rows of a query with two, four or no
\* columns, a list of two values and a value that is neither.
RowKinds ==
    {DictRow(<<"id", "name">>), DictRow(<<"id", "name", "score", "title">>),
     DictRow(<<>>), ListRow(2), ScalarRow}

ResultLists == SeqsUpTo(RowKinds, MaxRows)

TwoRows == <<DictRow(<<"id", "name">>), DictRow(<<"id", "name">>)>>

NoCall == [fn |-> "none"]

\* Threads that construct and use ModelHandler objects, and the largest
\* number of loads followed.
MaxThreads == 2
MaxLoads == 3

Threads == 1..MaxThreads

\* The fallback of _load_fallback_model (94).
FALLBACK_MODEL == "google/flan-t5-base"

\* The names a ModelHandler is asked for.
ModelNames == {"yasserrmd/Text2SQL-1.5B", FALLBACK_MODEL}

\* _model_cache = {}: no name has an entry (0 stands for no entry, k > 0 for
\* the k-th pair of objects).
EmptyCache == [n \in ModelNames |-> 0]

\* A thread that holds no handler.
NoHandler == [pc |-> "none", requested |-> "", model_name |-> "", obj |-> 0]

\* Number of "with get_cursor()" blocks run on the connection.
MaxUses == 4

\* The exceptions a block's body raises (sqlite3.Error and the like).
Exceptions == {"OperationalError", "IntegrityError"}

\* DatabaseConnection(db_config) before connect(): connection is None.  events
\* are the calls the current (or last) block made on the connection and its
\* cursor, body is how its body ended, raised what left the with statement.
NewConnection ==
    [pc |-> "idle", connection |-> FALSE, events |-> <<>>, body |-> "none",
     raised |-> "none", uses |-> 0]

\* The names under which files are uploaded.
FileNames == {"a.db", "B.SQLITE", "c.txt"}

\* No file of that name.  A file is its kind of content, its size in MB and
\* an identity of the content.
NoFile == [kind |-> "absent", size |-> 0, id |-> 0]

EmptyDir == [f \in FileNames |-> NoFile]

-----------------------------------------------------------------------------
(* The pipeline: EnhancedText2SQLService.generate_sql (251-327), one step  *)
(* per call it makes.                                                      *)

\* Number of concurrent requests.
MaxRequests == 2

Requests == 1..MaxRequests

\* How the endpoint that calls generate_sql is served: a plain def endpoint
\* (app.py, text2sql) runs in the server's thread pool, one thread for each
\* request; an async def endpoint (main.py, generate_sql) runs on the event
\* loop and, holding no await, runs to its end before another one starts.
Servers == {"threadpool", "eventloop"}

\* The positions of a request, in the order it passes them: "generate" is
\* about to call model.generate, "generating" is inside the call.
WorkerStages ==
    <<"idle", "request", "schema", "context", "prompt", "generate",
      "generating", "clean", "confidence", "validate", "return", "done">>

IdleWorkers(server) ==
    [server |-> server, stage |-> [r \in Requests |-> "idle"]]

InitData ==
    /\ pc = "idle"
    /\ question = <<>>
    /\ schema = <<>>
    /\ schemaCtx = <<>>
    /\ prompt = create_enhanced_prompt(<<>>, <<>>)
    /\ rawOut = <<>>
    /\ probs = [err |-> FALSE, vals |-> <<>>]
    /\ cleaned = <<>>
    /\ tokenConf = NoneScore
    /\ dbOk = FALSE
    /\ result = NoResult
    /\ raised = FALSE
    /\ log = <<>>
    /\ call = NoCall
    /\ model_cache = EmptyCache
    /\ objects = <<>>
    /\ handlers = [t \in Threads |-> NoHandler]
    /\ conn = NewConnection
    /\ dataDir = EmptyDir

Init == InitData /\ workers = IdleWorkers("threadpool")

\* generate_sql(question, db_connection) is called.
Start ==
    /\ pc = "idle" /\ call = NoCall
    /\ \E q \in Questions : question' = q
    /\ pc' = "schema"
    /\ UNCHANGED <<schema, schemaCtx, prompt, rawOut, probs, cleaned, tokenConf,
                   dbOk, result, raised, log, call>>
    /\ UNCHANGED <<workers, componentVars>>

\* get_database_schema reads the tables (253).
GetSchema ==
    /\ pc = "schema"
    /\ \E sc \in Schemas : schema' = sc
    /\ pc' = "context"
    /\ UNCHANGED <<question, schemaCtx, prompt, rawOut, probs, cleaned,
                   tokenConf, dbOk, result, raised, log, call>>
    /\ UNCHANGED <<workers, componentVars>>

\* get_database_schema raises (the connection is closed or broken).
GetSchemaFails ==
    /\ pc = "schema"
    /\ result' = OnException("OperationalError").result
    /\ raised' = OnException("OperationalError").raised
    /\ pc' = "done"
    /\ UNCHANGED <<question, schema, schemaCtx, prompt, rawOut, probs, cleaned,
                   tokenConf, dbOk, log, call>>
    /\ UNCHANGED <<workers, componentVars>>

\* create_schema_context (254).
SelectSchema ==
    /\ pc = "context"
    /\ schemaCtx' = create_schema_context(schema, question)
    /\ pc' = "prompt"
    /\ UNCHANGED <<question, schema, prompt, rawOut, probs, cleaned, tokenConf,
                   dbOk, result, raised, log, call>>
    /\ UNCHANGED <<workers, componentVars>>

\* create_enhanced_prompt (267).
BuildPrompt ==
    /\ pc = "prompt"
    /\ prompt' = create_enhanced_prompt(question, schemaCtx)
    /\ pc' = "generate"
    /\ UNCHANGED <<question, schema, schemaCtx, rawOut, probs, cleaned,
                   tokenConf, dbOk, result, raised, log, call>>
    /\ UNCHANGED <<workers, componentVars>>

\* tokenizer, model.generate and decode succeed (269-296).
Generate ==
    /\ pc = "generate"
    /\ log' = Append(log, [op |-> "generate", arg |-> prompt.question])
    /\ \E r \in PipelineRaw : rawOut' = r
    /\ \E p \in PipelineProbs : probs' = p
    /\ pc' = "clean"
    /\ UNCHANGED <<question, schema, schemaCtx, prompt, cleaned, tokenConf,
                   dbOk, result, raised, call>>
    /\ UNCHANGED <<workers, componentVars>>

\* model.generate raises (out of memory, time-out, ...).
GenerateFails ==
    /\ pc = "generate"
    /\ log' = Append(log, [op |-> "generate", arg |-> prompt.question])
    /\ result' = OnException("GenerationError").result
    /\ raised' = OnException("GenerationError").raised
    /\ pc' = "done"
    /\ UNCHANGED <<question, schema, schemaCtx, prompt, rawOut, probs, cleaned,
                   tokenConf, dbOk, call>>
    /\ UNCHANGED <<workers, componentVars>>

\* clean_sql_output followed at once by the return: the confidence and the
\* syntax check are left out.
CleanOutputUnchecked ==
    /\ pc = "clean"
    /\ cleaned' = clean_sql_output(rawOut)
    /\ pc' = "return"
    /\ UNCHANGED <<question, schema, schemaCtx, prompt, rawOut, probs,
                   tokenConf, dbOk, result, raised, log, call>>
    /\ UNCHANGED <<workers, componentVars>>

\* clean_sql_output (297).
CleanOutput ==
    /\ pc = "clean"
    /\ cleaned' = clean_sql_output(rawOut)
    /\ pc' = "confidence"
    /\ UNCHANGED <<question, schema, schemaCtx, prompt, rawOut, probs,
                   tokenConf, dbOk, result, raised, log, call>>
    /\ UNCHANGED <<workers, componentVars>>

\* The token confidence (299-306).
ComputeConfidence ==
    /\ pc = "confidence"
    /\ tokenConf' = TokenConfidence(probs)
    /\ pc' = "validate"
    /\ UNCHANGED <<question, schema, schemaCtx, prompt, rawOut, probs, cleaned,
                   dbOk, result, raised, log, call>>
    /\ UNCHANGED <<workers, componentVars>>

\* validate_sql_syntax (309, 242-249): EXPLAIN <cleaned_sql> is executed.
ValidateSyntax ==
    /\ pc = "validate"
    /\ log' = Append(log, [op |-> "explain", arg |-> cleaned])
    /\ \E ok \in ExplainAnswers(cleaned) : dbOk' = ok
    /\ pc' = "return"
    /\ UNCHANGED <<question, schema, schemaCtx, prompt, rawOut, probs, cleaned,
                   tokenConf, result, raised, call>>
    /\ UNCHANGED <<workers, componentVars>>

\* Return with a retry: a statement the database rejects sends the run back
\* to the model call, up to two times.
ReturnOrRetry ==
    /\ pc = "return"
    /\ IF ~dbOk /\ Len(log) < 6
       THEN pc' = "generate" /\ UNCHANGED result
       ELSE /\ result' = SuccessResult(cleaned, dbOk, rawOut, schemaCtx,
                                       tokenConf)
            /\ pc' = "done"
    /\ UNCHANGED <<question, schema, schemaCtx, prompt, rawOut, probs, cleaned,
                   tokenConf, dbOk, raised, log, call>>
    /\ UNCHANGED <<workers, componentVars>>

\* return {...} (311-318).
Return ==
    /\ pc = "return"
    /\ result' = SuccessResult(cleaned, dbOk, rawOut, schemaCtx, tokenConf)
    /\ pc' = "done"
    /\ UNCHANGED <<question, schema, schemaCtx, prompt, rawOut, probs, cleaned,
                   tokenConf, dbOk, raised, log, call>>
    /\ UNCHANGED <<workers, componentVars>>

-----------------------------------------------------------------------------
(* Direct calls of the components *)

CallFrame == UNCHANGED <<pc, question, schema, schemaCtx, prompt, rawOut,
                         probs, cleaned, tokenConf, dbOk, result, raised, log,
                         workers, componentVars>>

\* SQLValidator.is_safe_sql(sql).
CallIsSafe ==
    /\ pc = "idle" /\ call = NoCall
    /\ \E sql \in Statements :
          call' = [fn |-> "is_safe_sql", arg |-> sql, ret |-> is_safe_sql(sql)]
    /\ CallFrame

\* SQLValidator.validate_and_clean(sql, db_connection).
CallValidateAndClean ==
    /\ pc = "idle" /\ call = NoCall
    /\ \E sql \in Statements : \E ok \in ExplainAnswers(clean_sql(sql)) :
          call' = [fn |-> "validate_and_clean", arg |-> sql,
                   ret |-> validate_and_clean(sql, ok)]
    /\ CallFrame

\* ConfidenceAnalyzer.calculate_token_confidence(scores).
CallAnalyzer ==
    /\ pc = "idle" /\ call = NoCall
    /\ \E p \in ProbInputs :
          call' = [fn |-> "calculate_token_confidence", arg |-> p,
                   ret |-> calculate_token_confidence(p)]
    /\ CallFrame

\* PromptBuilder.validate_user_input(user_query).
CallValidateInput ==
    /\ pc = "idle" /\ call = NoCall
    /\ \E q \in QuestionTexts :
          call' = [fn |-> "validate_user_input", arg |-> q,
                   ret |-> validate_user_input(q)]
    /\ CallFrame

\* PromptBuilder.build_schema_context(schema_info, user_query).
CallBuildSchemaContext ==
    /\ pc = "idle" /\ call = NoCall
    /\ \E sc \in SelectorSchemas : \E q \in SelectorQuestions :
          call' = [fn |-> "build_schema_context",
                   arg |-> [schema_info |-> sc, user_query |-> q],
                   ret |-> build_schema_context(sc, q)]
    /\ CallFrame

Next ==
    \/ Start \/ GetSchema \/ GetSchemaFails \/ SelectSchema \/ BuildPrompt
    \/ Generate \/ GenerateFails \/ CleanOutput \/ ComputeConfidence
    \/ ValidateSyntax \/ Return
    \/ CallIsSafe \/ CallValidateAndClean \/ CallAnalyzer
    \/ CallValidateInput \/ CallBuildSchemaContext

Spec == Init /\ [][Next]_vars

-----------------------------------------------------------------------------
(* Concurrent requests on the one service instance of the process          *)
(* (app.py 40, main.py 19).  Only the position of each request is kept.    *)

InitConcurrent ==
    /\ InitData
    /\ \E sv \in Servers : workers = IdleWorkers(sv)

WorkerFrame == UNCHANGED <<pc, question, schema, schemaCtx, prompt, rawOut,
                           probs, cleaned, tokenConf, dbOk, result, raised,
                           log, call, componentVars>>

StageOf(r) == workers.stage[r]

MoveTo(r, st) == workers' = [workers EXCEPT !.stage[r] = st]

\* The stage after st in WorkerStages.
NextStage(st) ==
    WorkerStages[(CHOOSE i \in 1..Len(WorkerStages) : WorkerStages[i] = st) + 1]

\* The server hands a request to the endpoint function.
WorkerAccept(r) ==
    /\ StageOf(r) = "idle"
    /\ workers.server = "eventloop" =>
          \A o \in Requests : StageOf(o) \in {"idle", "done"}
    /\ MoveTo(r, "request")
    /\ WorkerFrame

\* main.py's endpoint calls generate_sql(question, connection, db_type=...)
\* (main.py 96), a keyword generate_sql does not take (text2sql_service.py
\* 251): the call raises TypeError before its first statement and the
\* endpoint answers with the error (main.py 99-101).
WorkerCallRejected(r) ==
    /\ workers.server = "eventloop"
    /\ StageOf(r) = "request"
    /\ MoveTo(r, "done")
    /\ WorkerFrame

\* A step of the endpoint or of generate_sql other than the model call.
WorkerStep(r) ==
    /\ StageOf(r) = "request" => workers.server = "threadpool"
    /\ StageOf(r) \in {"request", "schema", "context", "prompt", "clean",
                       "confidence", "validate", "return"}
    /\ MoveTo(r, NextStage(StageOf(r)))
    /\ WorkerFrame

\* self.model.generate(...) is entered (text2sql_service.py 271); nothing is
\* acquired before the call.
WorkerBeginGenerate(r) ==
    /\ StageOf(r) = "generate"
    /\ MoveTo(r, "generating")
    /\ WorkerFrame

\* model.generate returns.
WorkerEndGenerate(r) ==
    /\ StageOf(r) = "generating"
    /\ MoveTo(r, "clean")
    /\ WorkerFrame

\* model.generate raises: the except block returns the fallback.
WorkerGenerateFails(r) ==
    /\ StageOf(r) = "generating"
    /\ MoveTo(r, "done")
    /\ WorkerFrame

NextConcurrent ==
    \E r \in Requests :
        \/ WorkerAccept(r) \/ WorkerStep(r) \/ WorkerBeginGenerate(r)
        \/ WorkerEndGenerate(r) \/ WorkerGenerateFails(r)
        \/ WorkerCallRejected(r)

SpecConcurrent == InitConcurrent /\ [][NextConcurrent]_vars

-----------------------------------------------------------------------------
(* The extractor and the cleaner as functions of the raw text *)

\* The texts enumerated token by token.  No text of the model puts the label
\* 'SQL:' directly after a fence: the code-block pattern of the extractor
\* (IGNORECASE) would then read the fence and the label's first letters as
\* one opening fence, which the token-level patterns do not follow.
RawVocab == {"SELECT", "DROP", "x", Semi, SP, NL, FenceSql, Fence}

RawTexts ==
    SeqsUpTo(RawVocab, MaxRawLen) \cup Statements \cup
    {RawFencedTwo, RawLabelled, RawLongLine, RawFencedLines}

\* PromptBuilder.extract_sql_from_response(response).
CallExtract ==
    /\ pc = "idle" /\ call = NoCall
    /\ \E r \in RawTexts :
          call' = [fn |-> "extract_sql_from_response", arg |-> r,
                   ret |-> extract_sql_from_response(r)]
    /\ CallFrame

\* SQLValidator.clean_sql(sql).
CallCleanSql ==
    /\ pc = "idle" /\ call = NoCall
    /\ \E r \in RawTexts :
          call' = [fn |-> "clean_sql", arg |-> r, ret |-> clean_sql(r)]
    /\ CallFrame

NextExtract == CallExtract \/ CallCleanSql

SpecExtract == Init /\ [][NextExtract]_vars

-----------------------------------------------------------------------------
(* The summarization service as a function of the results and of what the  *)
(* summary model does                                                      *)

\* ResultSummarizationService.generate_summary(question, results, sql_query):
\* every results list with the fixed generations, and every generation with
\* a list of two rows.
CallGenerateSummary ==
    /\ pc = "idle" /\ call = NoCall
    /\ \E rs \in ResultLists : \E g \in Generations :
          /\ rs = TwoRows \/ g \in FixedGenerations
          /\ call' = [fn |-> "generate_summary",
                      arg |-> [results |-> rs, generation |-> g],
                      ret |-> generate_summary(rs, g)]
    /\ CallFrame

NextSummary == CallGenerateSummary

SpecSummary == Init /\ [][NextSummary]_vars

-----------------------------------------------------------------------------
(* ModelHandler (model_handler.py 10-246): threads construct handlers and  *)
(* call generate_with_confidence on them.  The class takes no lock, so the *)
(* steps of different threads interleave at every call that can block.     *)

ModelFrame == UNCHANGED <<pc, question, schema, schemaCtx, prompt, rawOut,
                          probs, cleaned, tokenConf, dbOk, result, raised, log,
                          call, workers, conn, dataDir>>

\* tokenizer.pad_token of a tokenizer just loaded: causal models often come
\* without one.
PadTokens == {"None", "<pad>"}

SetHandler(t, h) == handlers' = [handlers EXCEPT ![t] = h]

\* ModelHandler(model_name) is called: __init__ up to its call of
\* _load_model_with_cache (13-22).
Construct(t, n) ==
    /\ handlers[t].pc \in {"none", "ready"}
    /\ SetHandler(t, [pc |-> "check", requested |-> n, model_name |-> n,
                      obj |-> 0])
    /\ UNCHANGED <<model_cache, objects>>
    /\ ModelFrame

\* The test of _load_model_with_cache (26-33): a hit takes the cached
\* objects and returns, a miss goes on to _load_model.
CheckCache(t) ==
    /\ handlers[t].pc = "check"
    /\ IF model_cache[handlers[t].model_name] # 0
       THEN SetHandler(t, [handlers[t] EXCEPT
                              !.pc = "ready",
                              !.obj = model_cache[handlers[t].model_name]])
       ELSE SetHandler(t, [handlers[t] EXCEPT !.pc = "load"])
    /\ UNCHANGED <<model_cache, objects>>
    /\ ModelFrame

\* _load_model loads the tokenizer and the model (47-88).
LoadModel(t) ==
    /\ handlers[t].pc = "load"
    /\ Len(objects) < MaxLoads
    /\ \E pad \in PadTokens :
          objects' = Append(objects, [name |-> handlers[t].model_name,
                                      pad_token |-> pad])
    /\ SetHandler(t, [handlers[t] EXCEPT !.pc = "store",
                                         !.obj = Len(objects) + 1])
    /\ UNCHANGED model_cache
    /\ ModelFrame

\* Loading raises: _load_model goes on to _load_fallback_model (90-92).
LoadModelFails(t) ==
    /\ handlers[t].pc = "load"
    /\ SetHandler(t, [handlers[t] EXCEPT !.pc = "fallback"])
    /\ UNCHANGED <<model_cache, objects>>
    /\ ModelFrame

\* _load_fallback_model (93-101): self.model_name becomes the fallback name
\* and the fallback is loaded.
LoadFallback(t) ==
    /\ handlers[t].pc = "fallback"
    /\ Len(objects) < MaxLoads
    /\ objects' = Append(objects, [name |-> FALLBACK_MODEL,
                                   pad_token |-> "<pad>"])
    /\ SetHandler(t, [handlers[t] EXCEPT !.pc = "store",
                                         !.model_name = FALLBACK_MODEL,
                                         !.obj = Len(objects) + 1])
    /\ UNCHANGED model_cache
    /\ ModelFrame

\* The fallback raises as well (102-104): the constructor raises and the
\* thread holds no handler.
LoadFallbackFails(t) ==
    /\ handlers[t].pc = "fallback"
    /\ SetHandler(t, NoHandler)
    /\ UNCHANGED <<model_cache, objects>>
    /\ ModelFrame

\* 'Store in cache' (35-40): the entry is written under self.model_name.
StoreInCache(t) ==
    /\ handlers[t].pc = "store"
    /\ model_cache' = [model_cache EXCEPT ![handlers[t].model_name] =
                                              handlers[t].obj]
    /\ SetHandler(t, [handlers[t] EXCEPT !.pc = "ready"])
    /\ UNCHANGED objects
    /\ ModelFrame

\* generate_with_confidence up to the call of model.generate (110-146):
\* 'if self.tokenizer.pad_token is None: self.tokenizer.pad_token = ...'.
BeginGenerateWithConfidence(t) ==
    /\ handlers[t].pc = "ready"
    /\ objects' = [objects EXCEPT ![handlers[t].obj].pad_token =
                       IF @ = "None" THEN "eos" ELSE @]
    /\ SetHandler(t, [handlers[t] EXCEPT !.pc = "generating"])
    /\ UNCHANGED model_cache
    /\ ModelFrame

\* model.generate returns or raises and generate_with_confidence returns
\* its dict (146-246).
EndGenerateWithConfidence(t) ==
    /\ handlers[t].pc = "generating"
    /\ SetHandler(t, [handlers[t] EXCEPT !.pc = "ready"])
    /\ UNCHANGED <<model_cache, objects>>
    /\ ModelFrame

NextModels ==
    \E t \in Threads :
        \/ \E n \in ModelNames : Construct(t, n)
        \/ CheckCache(t) \/ LoadModel(t) \/ LoadModelFails(t)
        \/ LoadFallback(t) \/ LoadFallbackFails(t) \/ StoreInCache(t)
        \/ BeginGenerateWithConfidence(t) \/ EndGenerateWithConfidence(t)

SpecModels == Init /\ [][NextModels]_vars

-----------------------------------------------------------------------------
(* DatabaseConnection.get_cursor (connection.py 62-88): one step per call  *)
(* the context manager makes around the body of a with block.              *)

CursorFrame == UNCHANGED <<pc, question, schema, schemaCtx, prompt, rawOut,
                           probs, cleaned, tokenConf, dbOk, result, raised,
                           log, call, workers, model_cache, objects, handlers,
                           dataDir>>

\* A call on the connection or the cursor, and whether it raised.
Event(op, ok) == [op |-> op, ok |-> ok]

Ops(events) == [i \in 1..Len(events) |-> events[i].op]

\* 67-71: connect when there is no connection, then connection.cursor().
EnterCursor(connected) ==
    /\ conn.pc = "idle"
    /\ conn.uses < MaxUses
    /\ conn.connection \/ connected
    /\ conn' = [conn EXCEPT !.pc = "body", !.connection = TRUE,
                            !.events = <<Event("cursor", TRUE)>>,
                            !.body = "none", !.raised = "none",
                            !.uses = @ + 1]
    /\ CursorFrame

\* 67-69: connect() returns False: raise before any cursor exists.
EnterCursorFails ==
    /\ conn.pc = "idle"
    /\ conn.uses < MaxUses
    /\ ~conn.connection
    /\ conn' = [conn EXCEPT !.events = <<>>, !.body = "none",
                            !.raised = "Cannot establish DB connection",
                            !.uses = @ + 1]
    /\ CursorFrame

\* 73: the body of the with block runs to its end (or returns).
BodyReturns ==
    /\ conn.pc = "body"
    /\ conn' = [conn EXCEPT !.pc = "commit", !.body = "returned"]
    /\ CursorFrame

\* 73, 78: the body raises e, which the generator receives at the yield.
BodyRaises(e) ==
    /\ conn.pc = "body"
    /\ conn' = [conn EXCEPT !.pc = "rollback", !.body = e]
    /\ CursorFrame

\* 74-77 with an unguarded commit: its exception reaches the handler of 78.
CommitUnguarded(ok) ==
    /\ conn.pc = "commit"
    /\ conn' = [conn EXCEPT !.pc = IF ok THEN "close" ELSE "rollback",
                            !.events = Append(@, Event("commit", ok))]
    /\ CursorFrame

\* 74-77: connection.commit(); an exception of the commit is swallowed.
Commit(ok) ==
    /\ conn.pc = "commit"
    /\ conn' = [conn EXCEPT !.pc = "close",
                            !.events = Append(@, Event("commit", ok))]
    /\ CursorFrame

\* 78-83: connection.rollback(), its own exception swallowed, then raise e.
Rollback(ok) ==
    /\ conn.pc = "rollback"
    /\ conn' = [conn EXCEPT !.pc = "close",
                            !.events = Append(@, Event("rollback", ok)),
                            !.raised = conn.body]
    /\ CursorFrame

\* 84-88: finally cursor.close(), its own exception swallowed; the with
\* statement ends, raising what line 83 raised.
CloseCursor(ok) ==
    /\ conn.pc = "close"
    /\ conn' = [conn EXCEPT !.pc = "idle",
                            !.events = Append(@, Event("close", ok))]
    /\ CursorFrame

\* 52-60: disconnect() between two blocks.
Disconnect ==
    /\ conn.pc = "idle"
    /\ conn.connection
    /\ conn' = [conn EXCEPT !.connection = FALSE]
    /\ CursorFrame

NextCursor ==
    \/ \E connected \in BOOLEAN : EnterCursor(connected)
    \/ EnterCursorFails
    \/ BodyReturns
    \/ \E e \in Exceptions : BodyRaises(e)
    \/ \E ok \in BOOLEAN : Commit(ok)
    \/ \E ok \in BOOLEAN : Rollback(ok)
    \/ \E ok \in BOOLEAN : CloseCursor(ok)
    \/ Disconnect

SpecCursor == Init /\ [][NextCursor]_vars

-----------------------------------------------------------------------------
(* DatabaseUploader (uploader.py 11-92) over the files of its data         *)
(* directory.                                                              *)

UploadFrame == UNCHANGED <<pc, question, schema, schemaCtx, prompt, rawOut,
                           probs, cleaned, tokenConf, dbOk, result, raised,
                           log, workers, model_cache, objects, handlers,
                           conn>>

\* self.max_file_size, in MB.
MAX_FILE_SIZE == 100

allowed_extensions == {".db", ".sqlite", ".sqlite3"}

\* os.path.splitext(filename)[1].lower()
Ext(filename) ==
    CASE filename = "a.db"     -> ".db"
      [] filename = "B.SQLITE" -> ".sqlite"
      [] filename = "c.txt"    -> ".txt"

\* What open(file_path, "wb") leaves before anything is written.
EmptyFile == [kind |-> "empty", size |-> 0, id |-> 0]

\* The contents uploaded: two databases, a text, a database above the size
\* limit and zero bytes.
UploadData ==
    {[kind |-> "sqlite", size |-> 1, id |-> 1],
     [kind |-> "sqlite", size |-> 1, id |-> 2],
     [kind |-> "text", size |-> 1, id |-> 3],
     [kind |-> "sqlite", size |-> MAX_FILE_SIZE + 1, id |-> 4],
     EmptyFile}

\* file_object: bytes, a stream (whose read() may raise), or anything else.
FileObjects ==
    {[type |-> t, data |-> d, readFails |-> FALSE] :
        t \in {"bytes", "stream"}, d \in UploadData}
    \cup {[type |-> "stream", data |-> d, readFails |-> TRUE] :
             d \in {[kind |-> "sqlite", size |-> 1, id |-> 1]}}
    \cup {[type |-> "other", data |-> EmptyFile, readFails |-> FALSE]}

\* The value None of handle_upload.
NoConfig == [type |-> "None", path |-> ""]

\* save_uploaded_file: the directory afterwards and whether it raised.  A
\* stream is read after the target has been opened for writing.
save_uploaded_file(dir, file_object, filename) ==
    CASE file_object.type = "stream" /\ file_object.readFails ->
            [dir |-> [dir EXCEPT ![filename] = EmptyFile], raised |-> TRUE]
      [] file_object.type = "stream" /\ ~file_object.readFails ->
            [dir |-> [dir EXCEPT ![filename] = file_object.data],
             raised |-> FALSE]
      [] file_object.type = "bytes" ->
            [dir |-> [dir EXCEPT ![filename] = file_object.data],
             raised |-> FALSE]
      [] OTHER -> [dir |-> dir, raised |-> TRUE]

\* utils.validate_sqlite_file: sqlite3 opens the file and reads
\* sqlite_master; a file of zero bytes is an empty database to it.
validate_sqlite_file(file) == file.kind \in {"sqlite", "empty"}

\* handle_upload: the directory afterwards and the value returned.
handle_upload(dir, file_object, filename) ==
    IF Ext(filename) \notin allowed_extensions
    THEN [dir |-> dir, ret |-> NoConfig]
    ELSE LET saved   == save_uploaded_file(dir, file_object, filename)
             removed == [saved.dir EXCEPT ![filename] = NoFile]
         IN IF saved.raised THEN [dir |-> saved.dir, ret |-> NoConfig]
            ELSE IF saved.dir[filename].size > MAX_FILE_SIZE
            THEN [dir |-> removed, ret |-> NoConfig]
            ELSE IF ~validate_sqlite_file(saved.dir[filename])
            THEN [dir |-> removed, ret |-> NoConfig]
            ELSE [dir |-> saved.dir,
                  ret |-> [type |-> "sqlite", path |-> filename]]

HandleUpload ==
    /\ \E o \in FileObjects : \E f \in FileNames :
          LET r == handle_upload(dataDir, o, f)
          IN /\ dataDir' = r.dir
             /\ call' = [fn |-> "handle_upload",
                         arg |-> [file_object |-> o, filename |-> f],
                         ret |-> r.ret]
    /\ UploadFrame

\* delete_database(filename) of a file that exists.
DeleteDatabase ==
    /\ \E f \in FileNames :
          /\ dataDir[f] # NoFile
          /\ dataDir' = [dataDir EXCEPT ![f] = NoFile]
          /\ call' = [fn |-> "delete_database", arg |-> f, ret |-> TRUE]
    /\ UploadFrame

NextUpload == HandleUpload \/ DeleteDatabase

SpecUpload == Init /\ [][NextUpload]_vars

-----------------------------------------------------------------------------
(* Properties of the pipeline (specification Spec) *)

\* The generation call was made and raised: the run is over and the model
\* call is the last thing it did.
GenerationFailed ==
    pc = "done" /\ log # <<>> /\ log[Len(log)].op = "generate"

\* C1: when the generation call fails, generate_sql raises nothing to its
\* caller and returns a result with sql = "SELECT 1;", valid = false and a
\* populated error field.
C1_FailureGivesFallback ==
    GenerationFailed =>
        /\ ~raised
        /\ "error" \in DOMAIN result
        /\ result.sql = Select1
        /\ result.valid = FALSE
        /\ result.error # ""

\* A run whose generation call failed and that returned the fallback.
C1_Witness ==
    /\ GenerationFailed
    /\ ~raised
    /\ result = [sql |-> Select1, valid |-> FALSE,
                 error |-> "GenerationError", raw_output |-> <<>>]

\* C2: a question that fails input validation is rejected before any call
\* of the generation model: no run contains a model generate call for an
\* invalid question.
C2_InvalidQuestionRejected ==
    \A i \in 1..Len(log) :
        log[i].op = "generate" => validate_user_input(log[i].arg)[1]

\* C3: the syntax check (EXPLAIN) is issued only for a statement the safety
\* check classifies safe: no unsafe statement is sent to the database, by
\* the pipeline or by validate_and_clean.
C3_UnsafeNeverSent ==
    /\ \A i \in 1..Len(log) :
          log[i].op = "explain" => is_safe_sql(log[i].arg).safe
    /\ call.fn = "validate_and_clean" =>
          \A i \in 1..Len(call.ret.explain) :
              is_safe_sql(call.ret.explain[i]).safe

\* The statement starts with SELECT or WITH, whatever its case and leading
\* whitespace.
StartsWithRead(sql) ==
    LET body == Strip(sql)
    IN body # <<>> /\ Up(body[1]) \in {"SELECT", "WITH"}

\* C4: every statement that does not start with SELECT or WITH is classified
\* unsafe.
C4_OnlyReadQueries ==
    (call.fn = "is_safe_sql" /\ ~StartsWithRead(call.arg)) => ~call.ret.safe

\* The destructive keywords of the permissive policy.
DestructiveKeywords ==
    {"DROP", "DELETE", "UPDATE", "INSERT", "ALTER", "TRUNCATE", "CREATE"}

\* The position of the first token at or after i that is not white space,
\* or 0.
NextWord(s, i) ==
    LET later == {j \in i..Len(s) : ~IsSpace(s[j])}
    IN IF later = {} THEN 0 ELSE Least(later)

\* A destructive keyword leads the text or follows a ';'.
DestructiveStatement(sql) ==
    \E i \in 1..Len(sql) :
        /\ i = 1 \/ sql[i - 1] = Semi
        /\ NextWord(sql, i) # 0
        /\ Up(sql[NextWord(sql, i)]) \in DestructiveKeywords

\* C18: the safety check answers safe only for a statement that has no
\* destructive keyword, leading or chained after ';', and whose ratio of
\* safe keywords to words is at least 0.3; a statement with a destructive
\* keyword is unsafe with or without a ';' or a WHERE clause.
C18_DestructiveIsUnsafe ==
    (call.fn = "is_safe_sql" /\ call.ret.safe) =>
        /\ ~DestructiveStatement(call.arg)
        /\ SafeCount(call.arg) * 10 >= 3 * WordCount(call.arg)

\* The fields of a fully populated result.
ResultFields ==
    {"sql", "valid", "is_safe", "confidence", "confidence_label",
     "raw_output", "schema_used"}

\* C5: every result returned is fully populated: sql, valid, is_safe,
\* confidence, confidence_label, raw_output and schema_used are all there,
\* and a result of a failure path also has error, sql = "SELECT 1;" and
\* valid = false.
C5_ResultFullyPopulated ==
    pc = "done" =>
        /\ ResultFields \subseteq DOMAIN result
        /\ "error" \in DOMAIN result =>
              (result.sql = Select1 /\ result.valid = FALSE)

\* C6: when the generated text holds no SQL statement (it is empty or has no
\* statement keyword), the result returned is the fallback: sql =
\* "SELECT 1;", valid = false, error = "ExtractionError".
C6_ExtractionFailureFallback ==
    [][(pc = "return" /\ pc' = "done" /\ ~HasWord(rawOut, StmtKeywords)) =>
          /\ "error" \in DOMAIN result'
          /\ result'.error = "ExtractionError"
          /\ result'.sql = Select1
          /\ result'.valid = FALSE]_vars

\* The report's avg, min and max (in thousandths) lie in [0,1].
ReportInUnitInterval ==
    call.fn = "calculate_token_confidence" =>
        /\ call.ret.avg_confidence \in 0..1000
        /\ call.ret.min_confidence \in 0..1000
        /\ call.ret.max_confidence \in 0..1000

ReferenceLabel(vals) ==
    LET n == Len(vals)
        s == SumSeq(vals)
    IN IF n = 0 THEN "Unknown"
       ELSE IF s >= 85 * n THEN "High"
       ELSE IF s >= 65 * n THEN "Medium"
       ELSE IF s >= 45 * n THEN "Low"
       ELSE "Very Low"

\* C10: the label reported for a sequence of per-token probabilities is the
\* reference label (Unknown for the empty sequence, then High, Medium, Low,
\* Very Low by the average with inclusive lower bounds 0.85, 0.65, 0.45), in
\* the pipeline's result and in the analyzer's report.
C10_LabelIsReference ==
    /\ (pc = "done" /\ "confidence_label" \in DOMAIN result /\ ~probs.err) =>
          result.confidence_label = ReferenceLabel(probs.vals)
    /\ (call.fn = "calculate_token_confidence" /\ ~call.arg.err) =>
          call.ret.confidence_label = ReferenceLabel(call.arg.vals)

\* The conditions under which a question is to be rejected, each one on the
\* trimmed question.
QuestionIsEmpty(q) == Strip(q) = <<>>
QuestionTooShort(q) == SumLen(Strip(q)) < 3
QuestionTooLong(q) == SumLen(Strip(q)) > 2000
QuestionChained(q) ==
    LET t == Strip(q)
    IN \E i \in 1..Len(t) :
          /\ t[i] = Semi
          /\ \/ ChainedThenSpaceAt(t, i, "DROP")
             \/ ChainedThenSpaceAt(t, i, "TRUNCATE")
             \/ ChainedDeleteAt(t, i)
QuestionEncoded(q) == \E i \in 1..Len(q) : q[i] \in {"%27", "char("}
QuestionObfuscated(q) ==
    10 * SumSpecial(Strip(q)) > 3 * SumLen(Strip(q))
QuestionDoubleSemi(q) ==
    \E i \in 1..(Len(q) - 1) : q[i] = Semi /\ q[i + 1] = Semi
QuestionRejectable(q) ==
    \/ QuestionIsEmpty(q) \/ QuestionTooShort(q) \/ QuestionTooLong(q)
    \/ QuestionChained(q) \/ QuestionEncoded(q) \/ QuestionObfuscated(q)
    \/ QuestionDoubleSemi(q)

\* C11: validate_user_input rejects a question if and only if it is empty or
\* whitespace-only (message "Query cannot be empty"), too short, too long,
\* matches a blocklist pattern, has more than 30% special characters or
\* holds ';;'; a question that matches only warning patterns is accepted.
C11_RejectsExactlyListed ==
    call.fn = "validate_user_input" =>
        /\ call.ret[1] = ~QuestionRejectable(call.arg)
        /\ QuestionIsEmpty(call.arg) => call.ret[2] = "Query cannot be empty"
        /\ call.ret[1] => call.ret[2] = NoneVal

\* A question with SQL comment syntax or UNION SELECT and none of the
\* rejecting conditions has been accepted.
C11_Witness ==
    /\ call.fn = "validate_user_input"
    /\ MatchesWarnPattern(call.arg)
    /\ ~QuestionRejectable(call.arg)
    /\ call.ret = <<TRUE, NoneVal>>

\* C12: the rendered schema context holds at most the configured number of
\* 'Table:' blocks (10 for PromptBuilder.build_schema_context, 3 for the
\* service's create_schema_context), whether tables were found relevant or
\* the first tables of the schema are used.
C12_ContextWithinCap ==
    /\ call.fn = "build_schema_context" =>
          Len(call.ret.tables) <= MAX_SCHEMA_TABLES
    /\ Len(schemaCtx) <= SERVICE_MAX_TABLES

\* A schema of more tables than the cap, all of them named by the question,
\* has been rendered with exactly the cap's number of tables.
C12_Witness ==
    /\ call.fn = "build_schema_context"
    /\ Len(call.arg.schema_info) > MAX_SCHEMA_TABLES
    /\ call.arg.user_query = QAllTables
    /\ call.ret.kind = "context"
    /\ Len(call.ret.tables) = MAX_SCHEMA_TABLES

-----------------------------------------------------------------------------
\* C17: for an empty schema the selector returns the 'no schema available'
\* placeholder, never an empty text and never the header alone, whatever
\* the question is: both the selector of the pipeline and the selector of
\* the prompt builder.
C17_EmptySchemaPlaceholder ==
    [][/\ (pc = "context" /\ pc' = "prompt" /\ schema = <<>>) =>
             SchemaContextText(schemaCtx') = NoSchemaText
       /\ (call'.fn = "build_schema_context"
             /\ call'.arg.schema_info = <<>>) =>
             call'.ret.kind = "placeholder"]_vars

\* The number of model.generate calls of the run.
GenerateCalls == Cardinality({i \in 1..Len(log) : log[i].op = "generate"})

\* The score the ranking rule gives a table: 10 for its name, 5 for the
\* name without its last letter or with an added 's', 3 for each column
\* name, each counted when it occurs in the question in any case.
RuleScore(table, q) ==
    LET name    == Lower(table.name)
        exact   == OccursInQuery(name, q)
        variant == OccursInQuery(ButLast(name), q)
                   \/ OccursInQuery(name \o "s", q)
        columns == {c \in 1..Len(table.cols) :
                       OccursInQuery(Lower(table.cols[c]), q)}
    IN (IF exact THEN 10 ELSE 0) + (IF variant THEN 5 ELSE 0)
       + 3 * Cardinality(columns)

\* tables lists tables of the schema without repetition, the higher score
\* first and equal scores in schema order, and every scored table it leaves
\* out comes after all those it lists.
RankedByRule(tables, schema_info, q) ==
    LET scored  == {i \in 1..Len(schema_info) :
                       RuleScore(schema_info[i], q) > 0}
        at(a)   == CHOOSE i \in 1..Len(schema_info) :
                       schema_info[i].name = tables[a]
        first(i, j) ==
            \/ RuleScore(schema_info[i], q) > RuleScore(schema_info[j], q)
            \/ /\ RuleScore(schema_info[i], q) = RuleScore(schema_info[j], q)
               /\ i < j
    IN /\ \A a \in 1..Len(tables) :
             \E i \in scored : schema_info[i].name = tables[a]
       /\ \A a, b \in 1..Len(tables) : a < b => first(at(a), at(b))
       /\ \A i \in scored :
             (\A a \in 1..Len(tables) : at(a) # i) =>
                 \A a \in 1..Len(tables) : first(at(a), i)
       /\ Len(tables) = Min2(Cardinality(scored), MAX_SCHEMA_TABLES)

\* C22: the selector returns the tables with a score above 0, the highest
\* score first, where the score is 10 for the table name, 5 for a singular
\* or plural variant of it and 3 for each column name that occurs in the
\* question; tables of equal score keep the order of the schema.  (When no
\* table scores, the selector falls back to the tables of the schema.)
C22_RankedByScore ==
    (call.fn = "build_schema_context" /\ call.ret.kind = "context") =>
        LET schema_info == call.arg.schema_info
            q == sanitize_user_input(call.arg.user_query)
        IN IF \E i \in 1..Len(schema_info) : RuleScore(schema_info[i], q) > 0
           THEN RankedByRule(call.ret.tables, schema_info, q)
           ELSE call.ret.tables =
                    Prefix([i \in 1..Len(schema_info) |-> schema_info[i].name],
                           MAX_SCHEMA_TABLES)

\* The question 'student grades' on the four tables: grades (18) comes
\* before students (5) although students is the first table of the schema.
C22_Witness ==
    /\ call.fn = "build_schema_context"
    /\ call.arg.user_query = <<"student", SP, "grades">>
    /\ Len(call.arg.schema_info) = 4
    /\ call.ret.tables = <<"grades", "students">>

\* C23: the question in every prompt sent to the model is the sanitized
\* text (comments stripped, white space collapsed), never the raw question.
\* The formula speaks of the questions that pass validation; that a
\* question failing it reaches no prompt at all is C2.
C23_PromptHoldsSanitizedQuestion ==
    \A i \in 1..Len(log) :
        (log[i].op = "generate" /\ validate_user_input(question)[1]) =>
            log[i].arg = sanitize_user_input(question)

\* The stages of a request in their order.
StageOrder ==
    <<"INIT", "SCHEMA_SELECTED", "PROMPT_BUILT", "GENERATED", "EXTRACTED",
      "VALIDATED", "DONE">>

\* The stage a request has completed: INIT while the schema is read and
\* selected, SCHEMA_SELECTED once create_schema_context returned,
\* PROMPT_BUILT once the prompt exists, GENERATED once the model answered,
\* EXTRACTED once the statement was cleaned, VALIDATED once EXPLAIN was run,
\* DONE or FAILED once generate_sql returned; NONE before the request.
Stage ==
    CASE pc = "idle" -> "NONE"
      [] pc \in {"schema", "context"} -> "INIT"
      [] pc = "prompt" -> "SCHEMA_SELECTED"
      [] pc = "generate" -> "PROMPT_BUILT"
      [] pc = "clean" -> "GENERATED"
      [] pc \in {"confidence", "validate"} -> "EXTRACTED"
      [] pc = "return" -> "VALIDATED"
      [] OTHER -> IF "error" \in DOMAIN result THEN "FAILED" ELSE "DONE"

\* What a stage has left behind: the model was called by GENERATED and not
\* before PROMPT_BUILT was over, the database checked the statement by
\* VALIDATED and not before.
StageEffects ==
    /\ GenerateCalls > 0 <=>
          Stage \in {"GENERATED", "EXTRACTED", "VALIDATED", "DONE"}
          \/ (Stage = "FAILED" /\ log # <<>>)
    /\ (\E i \in 1..Len(log) : log[i].op = "explain") <=>
          Stage \in {"VALIDATED", "DONE"}

\* C20: a request passes the stages INIT, SCHEMA_SELECTED, PROMPT_BUILT,
\* GENERATED, EXTRACTED, VALIDATED, DONE in this order: every change of
\* stage leads to the next stage or, from a stage that is not terminal, to
\* FAILED; no stage is skipped, no stage has run before its predecessor,
\* and after DONE or FAILED nothing runs any more.
C20_StagesInOrder ==
    [][/\ Stage \notin {"DONE", "FAILED"}
       /\ StageEffects'
       /\ Stage' # Stage =>
             \/ Stage = "NONE" /\ Stage' = "INIT"
             \/ \E k \in 1..(Len(StageOrder) - 1) :
                   Stage = StageOrder[k] /\ Stage' = StageOrder[k + 1]
             \/ Stage # "NONE" /\ Stage' = "FAILED"]_vars

\* A request went through every stage: the model and the database were
\* called and generate_sql returned its result.
C20_Witness ==
    /\ Stage = "DONE"
    /\ Len(log) = 2
    /\ log[1].op = "generate" /\ log[2].op = "explain"
    /\ result.sql = cleaned

\* C14: a run calls the generation model at most once, and never again
\* after the syntax check of the statement it produced.
C14_AtMostOneGeneration ==
    /\ GenerateCalls <= 1
    /\ \A i, j \in 1..Len(log) :
          (i < j /\ log[i].op = "explain") => log[j].op # "generate"

\* A run ended with a statement the database rejected, after one model call.
C14_Witness ==
    /\ pc = "done"
    /\ GenerateCalls = 1
    /\ log[Len(log)].op = "explain"
    /\ ~dbOk
    /\ result.valid = FALSE

\* The fields of a returned dict that say what the statement is and whether
\* it may be used; the dict of generate_sql has no safety field.
Verdict(res) == [sql |-> res.sql, valid |-> res.valid]

\* C15: the run that returns and every run with the same raw text and the
\* same answer of the database, whatever its token probabilities are (a
\* failed confidence computation included), return the same sql and the
\* same valid flag.
C15_ConfidenceDoesNotGateValidity ==
    [][(pc = "return" /\ pc' = "done") =>
          \A p \in PipelineProbs :
             Verdict(SuccessResult(clean_sql_output(rawOut), dbOk, rawOut,
                                   schemaCtx, TokenConfidence(p)))
                = Verdict(result')]_vars

\* A run whose confidence computation failed returned a valid statement.
C15_Witness ==
    /\ pc = "done"
    /\ probs.err
    /\ tokenConf.none
    /\ "confidence" \in DOMAIN result
    /\ result.confidence.none
    /\ result.valid
    /\ result.sql = clean_sql_output(rawOut)

-----------------------------------------------------------------------------
(* Properties of concurrent requests (specification SpecConcurrent) *)

\* The requests that are inside model.generate.
InFlight == {r \in Requests : StageOf(r) = "generating"}

\* C13: calls of the generation model are serialized: at most one
\* model.generate call is in flight at any time.
C13_SingleFlight == Cardinality(InFlight) <= 1

-----------------------------------------------------------------------------
(* Properties of the summarization service (specification SpecSummary) *)

\* The rows of a results list that can be summarized: dicts, lists, tuples.
UsableRows(results) ==
    Cardinality({i \in 1..Len(results) : results[i].kind \in {"dict", "list"}})

\* C19: generate_summary raises nothing and returns a dict whose summary is
\* not empty and whose row_count is the number of usable rows, whatever the
\* results and whatever the model does; empty results give success = true,
\* the 'No data' summary and no call of the model; a failure of the model
\* gives the fallback summary with success = true.
C19_SummaryIsTotal ==
    call.fn = "generate_summary" =>
        /\ ~call.ret.raised
        /\ Strip(call.ret.result.summary) # <<>>
        /\ call.ret.result.row_count = UsableRows(call.arg.results)
        /\ call.arg.results = <<>> =>
              /\ call.ret.result.success
              /\ call.ret.result.summary = NoDataText
              /\ ~call.ret.called
        /\ (call.ret.called /\ call.arg.generation.kind \in {"raise", "error"}) =>
              /\ call.ret.result.success
              /\ call.ret.result.summary_type = "fallback"

\* The model raised while three rows, one of them unusable, were summarized.
C19_Witness ==
    /\ call.fn = "generate_summary"
    /\ call.arg.generation.kind = "raise"
    /\ Len(call.arg.results) = 3
    /\ call.ret.called
    /\ call.ret.result.row_count = 2
    /\ call.ret.result.summary_type = "fallback"
    /\ call.ret.result.summary # <<>>

\* C28: every question accepted by validate_user_input has a sanitized form
\* that still satisfies the validator's own constraints: after
\* sanitize_user_input it is non-empty and at least MIN_QUERY_LENGTH (3)
\* characters long.
C28_AcceptedStaysLongEnough ==
    (call.fn = "validate_user_input" /\ call.ret[1]) =>
        /\ sanitize_user_input(call.arg) # <<>>
        /\ SumLen(sanitize_user_input(call.arg)) >= MIN_QUERY_LENGTH

\* C29: in every report that calculate_token_confidence computes from scores,
\* the reported label is the label of the reported average: the thresholds
\* 0.85 / 0.65 / 0.45 applied to the returned avg_confidence (rounded to three
\* decimals) give the returned confidence_label, and min_confidence <=
\* avg_confidence <= max_confidence.
C29_LabelOfReportedAverage ==
    (/\ call.fn = "calculate_token_confidence"
     /\ call.ret.confidence_label \notin {"Unknown", "Error"}) =>
        /\ call.ret.confidence_label =
             analyzer_interpret_confidence(
                 [none |-> FALSE, num |-> call.ret.avg_confidence,
                  den |-> 1000])
        /\ call.ret.min_confidence <= call.ret.avg_confidence
        /\ call.ret.avg_confidence <= call.ret.max_confidence

-----------------------------------------------------------------------------
(* Properties of get_cursor (specification SpecCursor) *)

\* The block has ended: the with statement has returned or raised.
BlockEnded == conn.pc = "idle" /\ conn.body # "none"

-----------------------------------------------------------------------------
(* Properties of DatabaseUploader (specification SpecUpload) *)

\* C30: a handle_upload that fails (returns None) leaves the data directory
\* as it was before the call: no new file remains and no stored database,
\* including one with the same filename, is modified or removed.
C30_FailedUploadLeavesDirectory ==
    [][(call'.fn = "handle_upload" /\ call'.ret = NoConfig)
          => dataDir' = dataDir]_vars

-----------------------------------------------------------------------------
(* Properties of ModelHandler (specification SpecModels) *)

\* Thread t handles a generation request in this step.
RequestStep(t) ==
    \/ handlers[t].pc = "ready" /\ handlers'[t].pc = "generating"
    \/ handlers[t].pc = "generating" /\ handlers'[t].pc = "ready"

\* C24: handling a generation request never changes the cache: neither the
\* names it holds nor the state of the cached tokenizer and model objects,
\* however the requests of the threads interleave.
C24_RequestsLeaveCacheAlone ==
    [][(\E t \in Threads : RequestStep(t)) =>
          (model_cache' = model_cache /\ objects' = objects)]_vars

\* Thread t holds a handler whose construction succeeded.
Constructed(t) == handlers[t].pc \in {"ready", "generating"}

\* C26: once ModelHandler(N) has been constructed, the cache holds an entry
\* under the requested name N (so that the next ModelHandler(N) finds it and
\* loads nothing), also when the fallback was loaded in place of N.
C26_CachedUnderRequestedName ==
    \A t \in Threads :
        Constructed(t) => model_cache[handlers[t].requested] # 0

\* C27: however the constructions of the threads interleave, each model
\* name is loaded at most once, and the handlers of one name share their
\* objects.
C27_LoadedOncePerName ==
    /\ \A n \in ModelNames :
          Cardinality({k \in 1..Len(objects) : objects[k].name = n}) <= 1
    /\ \A t, u \in Threads :
          (Constructed(t) /\ Constructed(u)
             /\ handlers[t].model_name = handlers[u].model_name) =>
              handlers[t].obj = handlers[u].obj

-----------------------------------------------------------------------------
(* Properties of the extractor and the cleaner (specification SpecExtract) *)

\* A text without the semicolons and the white space at its end.
RECURSIVE DropSemi(_)
DropSemi(s) ==
    IF s # <<>> /\ s[Len(s)] \in {Semi, SP, NL}
    THEN DropSemi(SubSeq(s, 1, Len(s) - 1))
    ELSE s

\* The text between the fences of the first block tagged as SQL, without
\* the white space around it.
FencedInterior(s) ==
    Strip(Slice(s, CodeBlock(s)[1] + 1, CodeBlock(s)[2] - 1))

\* C21: when the raw text holds a fenced block tagged as SQL, the result is
\* the interior of the block as it stands, one line or several, without
\* the white space around it and with a ';' at its end: no line is dropped
\* or rewritten and nothing outside the fence is part of the result.  The
\* ';' is left out of the comparison.
C21_FencedInteriorVerbatim ==
    (call.fn = "extract_sql_from_response" /\ CodeBlock(call.arg)[1] # 0) =>
        DropSemi(call.ret) = DropSemi(FencedInterior(call.arg))

\* C16: extracting from the extractor's own output gives that output again,
\* up to the semicolon at its end, and the clean statement "SELECT 1;" is
\* returned unchanged.
C16_ExtractFixedPoint ==
    call.fn = "extract_sql_from_response" =>
        /\ DropSemi(extract_sql_from_response(call.ret)) = DropSemi(call.ret)
        /\ call.arg = Select1 => call.ret = Select1

\* C7: the text returned by extract_sql_from_response and by clean_sql is
\* empty or ends with ';', whatever the statement starts with.
C7_EmptyOrTerminated ==
    call.fn \in {"extract_sql_from_response", "clean_sql"} =>
        (call.ret = <<>> \/ EndsWithSemi(call.ret))

\* C8: the extractor keeps at most one ';'-terminated statement, in a fence
\* or outside; "SELECT 1; SELECT 2;" gives "SELECT 1;".
C8_AtMostOneStatement ==
    call.fn = "extract_sql_from_response" =>
        /\ CountSemi(call.ret) <= 1
        /\ call.arg = RawTwoStatements => call.ret = Select1

====
